---- MODULE Spec2Model ----
(***************************************************************************)
(* Model of mk-proxy-generator: the backend pool manager                   *)
(* (src/backend/tor_handler.py, TorInstance and TorPoolManager) and the    *)
(* per-connection handler (src/backend/proxy_server.py,                    *)
(* HybridProxyHandler).                                                    *)
(*                                                                         *)
(* Objects are modelled as a heap: inst is the sequence of every           *)
(* TorInstance ever constructed, an instance is named by its position in   *)
(* it, and the manager's list self.instances is a sequence of such names.  *)
(* Python indices are 0-based; TLA+ sequences are 1-based, so              *)
(* self.instances[k] is instances[k + 1].                                  *)
(***************************************************************************)
EXTENDS Integers, Sequences, FiniteSets, TLC

(***************************************************************************)
(* Bounds of the model.                                                    *)
(***************************************************************************)
\* largest pool size (TorPoolManager.count) explored
MaxCount == 3
\* clock ticks explored
MaxTicks == 2
\* background warm-up threads alive at the same time
MaxWarm == 4
\* connections accepted
MaxConn == 1
\* calls of the owner while the server runs
MaxCalls == 3
\* chunks relayed in each direction of a connection
MaxChunks == 1
\* calls traced on one instance
MaxTrace == 3
\* threads calling at the same time
MaxCallers == 2
\* readiness probes of one start(), in place of its 180
MaxProbes == 2

(***************************************************************************)
(* Program constants.                                                      *)
(***************************************************************************)
\* TorInstance._cache_ttl, seconds
CacheTTL == 60
\* the step between two neighbouring instances' ports: (i*2)
PortStride == 2
\* the largest port struct.pack('>H', target_port) takes
MaxPort == 65535
\* seconds of HybridProxyHandler.setup: self.request.settimeout(self.timeout)
ClientTimeout == 30
\* seconds of connect_to_tor: s.settimeout(5), in force on the socket it
\* returns
DialTimeout == 5
\* default base ports of TorPoolManager.__init__
DefaultSocksBase == 9050
DefaultControlBase == 9051

\* base ports a manager is constructed with
SocksBases == {DefaultSocksBase, DefaultSocksBase + 1}
ControlBases == {DefaultControlBase, DefaultSocksBase + PortStride,
                 DefaultSocksBase + PortStride * MaxCount}
\* TorInstance objects explored on one manager: two full pools
MaxInstances == 2 * MaxCount

\* seconds the clock advances in one tick
TickStep == CacheTTL \div 2
\* time.time() when the manager is constructed: any value beyond the TTL,
\* as the epoch clock is
StartTime == 2 * CacheTTL

\* the values of max_retries get_ip is called with in the backend: by the
\* handler of the control path and by the background threads of a rotation
RetryCounts == {1, 2}

\* identities the address-echo service can report
IPs == {"ip1", "ip2"}
\* None, where a string is expected
None == "None"
\* None, where a TorInstance is expected (instances are named from 1)
NoInstance == 0
\* the sentinel get_ip returns when no lookup succeeded
Pending == "..."
DirectIP == "ip0"

VARIABLES
    count,              \* TorPoolManager.count
    base_socks_port,    \* TorPoolManager.base_socks_port
    base_control_port,  \* TorPoolManager.base_control_port
    instances,          \* TorPoolManager.instances, as names into inst
    current_index,      \* TorPoolManager.current_index
    inst,               \* every TorInstance constructed so far
    warm,               \* the background threads started by rotations
    now,                \* time.time()
    ret,                \* what the last manager call returned or raised
    rotBase,            \* current_index before the first of the rotations logged
    rotLog              \* the instances returned by the rotations since the
                        \* last start_pool or stop_pool

VARIABLES
    sess,               \* the connection being handled, and what was seen of it
    served,             \* connections accepted so far
    calls               \* calls the owner made while the server was running

VARIABLES
    trace,              \* the calls made on one object, each with what it
                        \* was given and what it returned
    wire,               \* the sockets of the connection being handled and
                        \* the threads pumping between them
    callers,            \* threads calling into one manager or one instance
                        \* at the same time, each with its local variables
    run,                \* one instance's start(): where it is, its process
    backend             \* BackendWorker and its HybridProxyServer: the loop
                        \* of run and the thread calling stop

mgrVars == <<count, base_socks_port, base_control_port, instances,
             current_index, inst, warm, now>>
obsVars == <<ret, rotBase, rotLog>>
connVars == <<sess, served, calls>>
labVars == <<trace, wire, callers, run, backend>>
vars == <<mgrVars, obsVars, labVars, connVars>>


(***************************************************************************)
(* TorInstance                                                             *)
(***************************************************************************)
\* TorInstance.__init__: the fields the model follows
NewInstance(socks, control) ==
    [socks_port |-> socks, control_port |-> control, process |-> FALSE,
     ip_cache |-> None, ip_cache_time |-> 0, proxies |-> "socks"]

\* TorInstance.start on a fresh instance: ok is whether the binary exists,
\* the spawn worked and one of the 180 readiness probes succeeded.  On
\* failure no handle is kept (never set, or cleared by stop()).
Started(i, ok) ==
    IF ok THEN [i EXCEPT !.process = TRUE, !.ip_cache = None]
          ELSE [i EXCEPT !.process = FALSE]

\* TorInstance.stop
Stopped(i) == [i EXCEPT !.process = FALSE]

\* a renew_ip that gives the process up when the exchange fails
RenewedOrDropped(i, ok) ==
    IF ok THEN [i EXCEPT !.ip_cache = None] ELSE [i EXCEPT !.process = FALSE]

\* TorInstance.renew_ip: the cache is dropped only when the control-channel
\* exchange went through; every failure is swallowed
Renewed(i, ok) == IF ok THEN [i EXCEPT !.ip_cache = None] ELSE i

\* the address the echo service answers with when the identity ip would be
\* seen through the instance's SOCKS port: session.get takes the route from
\* session.proxies as it is when the request is made, and without a proxy
\* the service sees the host itself
Seen(i, ip) == IF i.proxies = "socks" THEN ip ELSE DirectIP

\* a get_ip that never trusts its cache
CacheNeverFresh(i, t) == FALSE

\* the cache test at the head of get_ip
CacheFresh(i, t) == i.ip_cache # None /\ (t - i.ip_cache_time) < CacheTTL

\* TorInstance.get_ip: outcomes is the result of each lookup attempt in
\* turn (an identity, or None for a failed attempt), one per retry.
\* Gives the value returned, the instance afterwards and the number of
\* lookups made through the instance's SOCKS port.
RECURSIVE TryLookups(_, _, _, _)
TryLookups(i, t, outcomes, made) ==
    IF outcomes = <<>> THEN [value |-> Pending, inst |-> i, lookups |-> made]
    ELSE IF Head(outcomes) # None
         THEN [value |-> Seen(i, Head(outcomes)),
               inst |-> [i EXCEPT !.ip_cache = Seen(i, Head(outcomes)),
                                  !.ip_cache_time = t],
               lookups |-> made + 1]
         ELSE TryLookups(i, t, Tail(outcomes), made + 1)

GetIp(i, t, outcomes) ==
    IF CacheFresh(i, t) THEN [value |-> i.ip_cache, inst |-> i, lookups |-> 0]
    ELSE TryLookups(i, t, outcomes, 0)

\* what a lookup can come back with: session.get raising (refused, timed
\* out), or a response with its status, the kind of its body ("invalid"
\* makes response.json() raise) and the ip member of the object
Reply(raised, status, body, ip_type, ip_text) ==
    [raised |-> raised, status |-> status, body |-> body,
     ip |-> [type |-> ip_type, text |-> ip_text]]
FailedReplies ==
    {Reply(TRUE, 0, "none", "missing", ""),
     Reply(FALSE, 503, "object", "str", "ip1"),
     Reply(FALSE, 200, "invalid", "missing", ""),
     Reply(FALSE, 200, "list", "missing", ""),
     Reply(FALSE, 200, "object", "missing", ""),
     Reply(FALSE, 200, "object", "int", "7"),
     Reply(FALSE, 200, "object", "str", "")}
Replies == FailedReplies \cup {Reply(FALSE, 200, "object", "str", ip) : ip \in IPs}

\* a reading of the reply that does not look at the status
ParseReplyAnyStatus(r) ==
    IF r.raised \/ r.body # "object" THEN None
    ELSE IF r.ip.type = "str" /\ r.ip.text # "" THEN r.ip.text
    ELSE None

\* one attempt of get_ip, from the response on: the identity found, or None
\* when the attempt failed (an exception is caught by the except clause);
\* the identities of the model have no blanks for strip() to remove
ParseReply(r) ==
    IF r.raised THEN None
    ELSE IF r.status # 200 THEN None
    ELSE IF r.body # "object" THEN None
    ELSE IF r.ip.type = "str" /\ r.ip.text # "" THEN r.ip.text
    ELSE None

\* the outcomes of the attempts whose replies are rs
OutcomesOf(rs) == [k \in 1..Len(rs) |-> ParseReply(rs[k])]

(***************************************************************************)
(* TorPoolManager                                                          *)
(***************************************************************************)
\* ports one apart instead of two
SocksPortDense(base, i) == base + i

\* the ports start_pool gives the instance of allocation index i
SocksPortOf(base, i) == base + (i * PortStride)
ControlPortOf(base, i) == base + (i * PortStride)

\* the instances start_pool constructs, in allocation order
Launched(n, bs, bc) ==
    [i \in 1..n |-> NewInstance(SocksPortOf(bs, i - 1), ControlPortOf(bc, i - 1))]

\* the names, in allocation order, of the launched instances whose start()
\* returned success: the zip loop appends them in that order
RECURSIVE Enrolled(_, _, _)
Enrolled(first, n, ok) ==
    IF n = 0 THEN <<>>
    ELSE Enrolled(first, n - 1, ok) \o
         (IF n \in ok THEN <<first + n>> ELSE <<>>)

\* start_pool without its final test
PoolStartNeverRaises(list) == FALSE

\* the test that ends start_pool
PoolStartRaises(list) == list = <<>>

\* TorPoolManager.start_pool; ok is the set of allocation positions whose
\* start() returns success.  The readiness wait that follows the starts
\* changes nothing; the exception is raised after the list was extended.
start_pool(ok) ==
    /\ Len(inst) + count <= MaxInstances
    /\ LET fresh == Launched(count, base_socks_port, base_control_port)
       IN /\ inst' = inst \o [i \in 1..count |-> Started(fresh[i], i \in ok)]
          /\ instances' = instances \o Enrolled(Len(inst), count, ok)
    /\ UNCHANGED <<count, base_socks_port, base_control_port, current_index,
                   warm, now>>

\* TorPoolManager.stop_pool
stop_pool ==
    /\ inst' = [k \in 1..Len(inst) |->
                  IF \E j \in 1..Len(instances) : instances[j] = k
                  THEN Stopped(inst[k]) ELSE inst[k]]
    /\ instances' = <<>>
    /\ UNCHANGED <<count, base_socks_port, base_control_port, current_index,
                   warm, now>>

\* TorPoolManager.get_proxy_port; "IndexError" when the subscript is out of
\* range
GetProxyPort ==
    IF instances # <<>>
    THEN IF current_index < Len(instances)
         THEN [raised |-> FALSE, value |-> inst[instances[current_index + 1]].socks_port]
         ELSE [raised |-> TRUE, value |-> 0]
    ELSE [raised |-> FALSE, value |-> 0]

\* TorPoolManager.get_current_instance
GetCurrentInstance ==
    IF instances # <<>>
    THEN IF current_index < Len(instances)
         THEN [raised |-> FALSE, value |-> instances[current_index + 1]]
         ELSE [raised |-> TRUE, value |-> NoInstance]
    ELSE [raised |-> FALSE, value |-> NoInstance]

\* a rotation that skips an instance
NextIndexSkips(idx, n) == (idx + 2) % n

\* the index a rotation of a pool of n >= 2 instances moves to
NextIndex(idx, n) == (idx + 1) % n
\* the index of the instance a rotation hands to the background thread
OldIndex(idx, n) == (idx - 1) % n

\* switch_to_next_instance without its branch for a pool of one
SwitchToNextNoSingle ==
    IF instances = <<>>
    THEN [index |-> current_index, value |-> NoInstance, renew |-> NoInstance]
    ELSE LET idx == NextIndex(current_index, Len(instances))
         IN [index |-> idx, value |-> instances[idx + 1],
             renew |-> instances[OldIndex(idx, Len(instances)) + 1]]

\* TorPoolManager.switch_to_next_instance: the new index, the instance
\* returned and the instance handed to the background thread
SwitchToNext ==
    IF instances = <<>>
    THEN [index |-> current_index, value |-> NoInstance, renew |-> NoInstance]
    ELSE IF Len(instances) = 1
    THEN [index |-> current_index, value |-> instances[1], renew |-> instances[1]]
    ELSE LET idx == NextIndex(current_index, Len(instances))
         IN [index |-> idx, value |-> instances[idx + 1],
             renew |-> instances[OldIndex(idx, Len(instances)) + 1]]

\* the background thread a rotation starts
Spawn(threads, sw) ==
    IF sw.renew = NoInstance THEN threads
    ELSE Append(threads, [inst |-> sw.renew, pc |-> "renew"])

\* the effect of switch_to_next_instance on the manager
switch_to_next_instance ==
    /\ Len(warm) < MaxWarm
    /\ current_index' = SwitchToNext.index
    /\ warm' = Spawn(warm, SwitchToNext)
    /\ UNCHANGED <<count, base_socks_port, base_control_port, instances, inst,
                   now>>

\* threads with the k-th removed
Without(threads, k) ==
    [j \in 1..(Len(threads) - 1) |-> IF j < k THEN threads[j] ELSE threads[j + 1]]

\* renew_single_ip / prewarm_old_instance, first step: renew_ip()
WarmRenew(k, ok) ==
    /\ k \in 1..Len(warm)
    /\ warm[k].pc = "renew"
    /\ inst' = [inst EXCEPT ![warm[k].inst] = Renewed(@, ok)]
    /\ warm' = [warm EXCEPT ![k].pc = "lookup"]
    /\ UNCHANGED <<count, base_socks_port, base_control_port, instances,
                   current_index, now>>

\* renew_single_ip / prewarm_old_instance, last step, after the readiness
\* polls (which change nothing): get_ip(max_retries=2)
WarmLookup(k, outcomes) ==
    /\ k \in 1..Len(warm)
    /\ warm[k].pc = "lookup"
    /\ inst' = [inst EXCEPT ![warm[k].inst] = GetIp(@, now, outcomes).inst]
    /\ warm' = Without(warm, k)
    /\ UNCHANGED <<count, base_socks_port, base_control_port, instances,
                   current_index, now>>

\* the clock advances
Tick ==
    /\ now < StartTime + MaxTicks * TickStep
    /\ now' = now + TickStep
    /\ UNCHANGED <<count, base_socks_port, base_control_port, instances,
                   current_index, inst, warm>>

(***************************************************************************)
(* Bytes.  A byte string is a sequence of one-character strings; the two   *)
(* bytes \r\n are the single element CRLF.  The operators are the Python   *)
(* bytes/str methods the handler calls.                                    *)
(***************************************************************************)
CRLF == "CRLF"
SP == " "

\* s.find(c) from position from: the first position holding c, 0 for none
RECURSIVE Find(_, _, _)
Find(s, c, from) ==
    IF from > Len(s) THEN 0
    ELSE IF s[from] = c THEN from ELSE Find(s, c, from + 1)

\* sub occurs in s at position k
OccursAt(s, sub, k) ==
    /\ k + Len(sub) - 1 <= Len(s)
    /\ \A j \in 1..Len(sub) : s[k + j - 1] = sub[j]

\* sub in s
Contains(s, sub) == \E k \in 1..Len(s) : OccursAt(s, sub, k)

\* s.startswith(p)
StartsWith(s, p) == OccursAt(s, p, 1)

\* s.split(c)
RECURSIVE Split(_, _)
Split(s, c) ==
    LET k == Find(s, c, 1)
    IN IF k = 0 THEN <<s>>
       ELSE <<SubSeq(s, 1, k - 1)>> \o Split(SubSeq(s, k + 1, Len(s)), c)

\* s.split(c, 1)[1], for an s that holds c
AfterFirst(s, c) == SubSeq(s, Find(s, c, 1) + 1, Len(s))

\* s.strip()
RECURSIVE Strip(_)
Strip(s) ==
    IF s = <<>> THEN s
    ELSE IF Head(s) = SP THEN Strip(Tail(s))
    ELSE IF s[Len(s)] = SP THEN Strip(SubSeq(s, 1, Len(s) - 1))
    ELSE s

\* c.lower()
LowerChar(c) ==
    CASE c = "C" -> "c" [] c = "E" -> "e" [] c = "G" -> "g" [] c = "H" -> "h"
      [] c = "N" -> "n" [] c = "O" -> "o" [] c = "P" -> "p" [] c = "S" -> "s"
      [] c = "T" -> "t" [] OTHER -> c

\* s.lower()
Lower(s) == [k \in 1..Len(s) |-> LowerChar(s[k])]

\* the value of a decimal digit, -1 for any other byte
DigitValue(c) ==
    CASE c = "0" -> 0 [] c = "1" -> 1 [] c = "2" -> 2 [] c = "3" -> 3
      [] c = "4" -> 4 [] c = "5" -> 5 [] c = "6" -> 6 [] c = "7" -> 7
      [] c = "8" -> 8 [] c = "9" -> 9 [] OTHER -> -1

IsDigits(s) == s # <<>> /\ \A k \in 1..Len(s) : DigitValue(s[k]) >= 0

RECURSIVE Decimal(_)
Decimal(s) ==
    IF s = <<>> THEN 0
    ELSE 10 * Decimal(SubSeq(s, 1, Len(s) - 1)) + DigitValue(s[Len(s)])

\* int(s): surrounding blanks are ignored; raised stands for ValueError
ParseInt(s) ==
    IF IsDigits(Strip(s)) THEN [raised |-> FALSE, value |-> Decimal(Strip(s))]
    ELSE [raised |-> TRUE, value |-> 0]

\* a letter of a URL scheme
IsSchemeChar(c) == LowerChar(c) \in {"c", "e", "g", "h", "n", "o", "p", "s", "t", "a", "b", "x"}

\* the first position from k of s holding one of "/?#", Len(s) + 1 for none
RECURSIVE NetlocEnd(_, _)
NetlocEnd(s, k) ==
    IF k > Len(s) THEN k
    ELSE IF s[k] \in {"/", "?", "#"} THEN k ELSE NetlocEnd(s, k + 1)

\* urllib.parse.urlsplit(url).netloc: the scheme, if any, is cut off, and
\* the network location is what follows "//" up to the next of "/?#"
UrlNetloc(url) ==
    LET i    == Find(url, ":", 1)
        rest == IF i > 1 /\ \A k \in 1..(i - 1) : IsSchemeChar(url[k])
                THEN SubSeq(url, i + 1, Len(url)) ELSE url
    IN IF StartsWith(rest, <<"/", "/">>)
       THEN SubSeq(rest, 3, NetlocEnd(rest, 3) - 1)
       ELSE <<>>

\* urlparse(url).hostname; <<>> stands for None
UrlHostname(url) ==
    LET netloc == UrlNetloc(url)
        k      == Find(netloc, ":", 1)
    IN Lower(IF k = 0 THEN netloc ELSE SubSeq(netloc, 1, k - 1))

\* urlparse(url).port: value 0 with none set stands for None, raised for
\* the ValueError of a port that is no number
UrlPort(url) ==
    LET netloc == UrlNetloc(url)
        k      == Find(netloc, ":", 1)
        port   == IF k = 0 THEN <<>> ELSE SubSeq(netloc, k + 1, Len(netloc))
    IN IF port = <<>> THEN [raised |-> FALSE, none |-> TRUE, value |-> 0]
       ELSE IF IsDigits(port)
            THEN [raised |-> FALSE, none |-> FALSE, value |-> Decimal(port)]
            ELSE [raised |-> TRUE, none |-> TRUE, value |-> 0]

(***************************************************************************)
(* Client requests.  A request is described by its parts and sent as the   *)
(* bytes Format gives; the handler sees the bytes alone.                   *)
(***************************************************************************)
GET == <<"G", "E", "T">>
CONNECT == <<"C", "O", "N", "N", "E", "C", "T">>
HTTP11 == <<"H", "T", "T", "P", "/", "1", ".", "1">>
HttpScheme == <<"h", "t", "t", "p", ":", "/", "/">>
RotatePath == <<"/", "r", "o", "t", "a", "t", "e">>

\* ":" and the port, when one is given
PortSuffix(port) == IF port = <<>> THEN <<>> ELSE <<":">> \o port

\* the request target
TargetBytes(r) ==
    CASE r.kind = "abs"       -> HttpScheme \o r.thost \o PortSuffix(r.tport) \o <<"/">>
      [] r.kind = "authority" -> r.thost \o PortSuffix(r.tport)
      [] r.kind = "rotate"    -> RotatePath
      [] OTHER                -> <<"/">>

RECURSIVE HeaderBytes(_)
HeaderBytes(hs) ==
    IF hs = <<>> THEN <<>>
    ELSE Head(hs).name \o <<":", SP>> \o Head(hs).host \o PortSuffix(Head(hs).port)
         \o <<CRLF>> \o HeaderBytes(Tail(hs))

\* the bytes of a request; a client that sends nothing has kind "empty", and
\* one that sends bytes of no such form has kind "raw" and the bytes in the
\* place of the method
Format(r) ==
    IF r.kind = "empty" THEN <<>>
    ELSE IF r.kind = "raw" THEN r.method
    ELSE r.method \o <<SP>> \o TargetBytes(r) \o <<SP>> \o HTTP11 \o <<CRLF>>
         \o HeaderBytes(r.headers) \o <<CRLF>>

Request(method, kind, thost, tport, headers) ==
    [method |-> method, kind |-> kind, thost |-> thost, tport |-> tport,
     headers |-> headers]
Header(name, host, port) == [name |-> name, host |-> host, port |-> port]

NoRequest == Request(<<>>, "empty", <<>>, <<>>, <<>>)
Raw(bytes) == Request(bytes, "raw", <<>>, <<>>, <<>>)

HostB == Header(<<"H", "o", "s", "t">>, <<"b">>, <<>>)
HostB9 == Header(<<"H", "o", "s", "t">>, <<"b">>, <<"9">>)
HostC == Header(<<"H", "o", "s", "t">>, <<"c">>, <<>>)
MixedCaseHostB9 == Header(<<"h", "O", "s", "T">>, <<"b">>, <<"9">>)

\* requests for a target behind the proxy
ProxyRequests ==
    { Request(GET, "abs", <<"a">>, <<>>, <<>>),
      Request(GET, "abs", <<"a">>, <<"8">>, <<HostB>>),
      Request(GET, "abs", <<>>, <<"8">>, <<HostB>>),
      Request(GET, "origin", <<>>, <<>>, <<MixedCaseHostB9>>),
      Request(GET, "origin", <<>>, <<>>, <<HostB9, HostC>>),
      Request(GET, "origin", <<>>, <<>>, <<>>),
      Request(CONNECT, "authority", <<"a">>, <<"4", "4", "3">>, <<>>),
      Request(CONNECT, "authority", <<"a">>, <<>>, <<>>),
      Request(CONNECT, "authority", <<"a">>, <<"x">>, <<>>) }

\* the request of the control path, and one request of each other kind
ControlRequests ==
    { Request(GET, "rotate", <<>>, <<>>, <<HostB>>),
      Request(CONNECT, "authority", <<"a">>, <<"4", "4", "3">>, <<>>),
      Request(GET, "origin", <<>>, <<>>, <<HostB>>),
      NoRequest }

\* the greeting of a SOCKS4 and of a SOCKS5 client, a line of no method, a
\* request line of one token, and two requests that name no target to dial
\* but hold the words of the control path
Socks4Greeting == Raw(<<"x04", "x01">>)
Socks5Greeting == Raw(<<"x05", "x01", "x00">>)
UnknownBytes == Raw(<<"x", CRLF, CRLF>>)
OneToken == Raw(GET \o <<CRLF, CRLF>>)
ConnectNoPortThenRotate ==
    Raw(CONNECT \o <<SP, "a", SP>> \o GET \o <<SP>> \o RotatePath \o <<CRLF, CRLF>>)
GetBelowRotate ==
    Raw(GET \o <<SP>> \o RotatePath \o <<"/", "x", SP>> \o HTTP11 \o <<CRLF, CRLF>>)

\* GET /rotateX with a Host header
GetRotateX ==
    Raw(GET \o <<SP>> \o RotatePath \o <<"X", SP>> \o HTTP11 \o <<CRLF>>
        \o HeaderBytes(<<HostB>>) \o <<CRLF>>)

\* the request of the control path, one for a path that starts with it, and
\* requests for a target
PathRequests ==
    { Request(GET, "rotate", <<>>, <<>>, <<HostB>>),
      GetRotateX,
      Request(GET, "origin", <<>>, <<>>, <<HostB>>),
      Request(CONNECT, "authority", <<"a">>, <<"4", "4", "3">>, <<>>) }

\* bytes a client sends right behind its CONNECT request, before it has
\* seen the answer
EarlyBytes == <<"early bytes">>

\* CONNECT a:443 with such bytes in the segment of the request
ConnectThenBytes ==
    Raw(Format(Request(CONNECT, "authority", <<"a">>, <<"4", "4", "3">>, <<>>))
        \o EarlyBytes)

\* requests for a tunnel, with and without bytes behind them, and a request
\* of another method
TunnelRequests ==
    { Request(CONNECT, "authority", <<"a">>, <<"4", "4", "3">>, <<>>),
      ConnectThenBytes,
      Request(GET, "abs", <<"a">>, <<>>, <<>>) }

\* connections the proxy has nothing to do for, and one it serves
MixedRequests ==
    { NoRequest, Socks4Greeting, Socks5Greeting, UnknownBytes, OneToken,
      Request(CONNECT, "authority", <<"a">>, <<>>, <<>>),
      Request(CONNECT, "authority", <<"a">>, <<"x">>, <<>>),
      Request(GET, "origin", <<>>, <<>>, <<>>),
      ConnectNoPortThenRotate, GetBelowRotate,
      Request(CONNECT, "authority", <<"a">>, <<"4", "4", "3">>, <<>>) }

(***************************************************************************)
(* HybridProxyHandler                                                      *)
(***************************************************************************)
\* the byte value of a character
ByteOf(c) ==
    CASE c = "x04" -> 4 [] c = "x05" -> 5 [] c = "C" -> 67 [] c = "G" -> 71 [] c = "H" -> 72 [] c = "O" -> 79
      [] c = "P" -> 80 [] c = CRLF -> 13 [] c = SP -> 32 [] c = "/" -> 47
      [] c = "h" -> 104 [] OTHER -> 120

\* a classification that takes only G, H, P and C for HTTP
DetectFourLetters(first_byte) ==
    IF first_byte = 4 THEN "SOCKS4"
    ELSE IF first_byte = 5 THEN "SOCKS5"
    ELSE IF first_byte \in {71, 72, 80, 67} THEN "HTTP"
    ELSE "UNKNOWN"

\* HybridProxyHandler.detect_protocol
detect_protocol(first_byte) ==
    IF first_byte = 4 THEN "SOCKS4"
    ELSE IF first_byte = 5 THEN "SOCKS5"
    ELSE IF first_byte \in {71, 72, 80, 67, 79, 80} THEN "HTTP"
    ELSE "UNKNOWN"

\* what handle_http decides before any socket is touched
Dropped == [route |-> "drop", connect |-> FALSE, host |-> <<>>, port |-> 0]
ToBackend(connect, host, port) ==
    [route |-> "dial", connect |-> connect, host |-> host, port |-> port]

\* a handle_http that takes no request for the control path
NeverControl(first_line) == FALSE

\* the test for the control path
IsControl(first_line) == Contains(first_line, GET \o <<SP>> \o RotatePath)

\* the CONNECT branch: host, port_str = url.split(':'); port = int(port_str)
ConnectTarget(url) ==
    LET hp == Split(url, ":")
    IN IF Len(hp) # 2 \/ ParseInt(hp[Len(hp)]).raised THEN Dropped
       ELSE ToBackend(TRUE, hp[1], ParseInt(hp[2]).value)

\* the urlparse branch: host = u.hostname, then port = u.port or 80; a
\* ValueError of u.port leaves the host assigned and the port at 80
UrlTarget(url) ==
    IF Contains(url, HttpScheme)
    THEN [host |-> UrlHostname(url),
          port |-> IF UrlPort(url).raised \/ UrlPort(url).value = 0
                   THEN 80 ELSE UrlPort(url).value]
    ELSE [host |-> <<>>, port |-> 80]

\* the first position from k of a line starting with "host:", 0 for none
RECURSIVE HostLine(_, _)
HostLine(lines, k) ==
    IF k > Len(lines) THEN 0
    ELSE IF StartsWith(Lower(lines[k]), <<"h", "o", "s", "t", ":">>) THEN k
    ELSE HostLine(lines, k + 1)

\* the Host header loop, entered with the port the urlparse branch left
HostHeaderTarget(data, port) ==
    LET lines == Split(data, CRLF)
        k     == HostLine(lines, 1)
        value == Strip(AfterFirst(lines[k], ":"))
        hp    == Split(value, ":")
    IN IF k = 0 THEN Dropped
       ELSE IF Find(value, ":", 1) # 0
            THEN IF Len(hp) # 2 \/ ParseInt(hp[Len(hp)]).raised \/ hp[1] = <<>>
                 THEN Dropped
                 ELSE ToBackend(FALSE, hp[1], ParseInt(hp[2]).value)
            ELSE IF value = <<>> THEN Dropped
                 ELSE ToBackend(FALSE, value, port)

\* the branch for the other methods
OtherTarget(data, url) ==
    IF UrlTarget(url).host # <<>>
    THEN ToBackend(FALSE, UrlTarget(url).host, UrlTarget(url).port)
    ELSE HostHeaderTarget(data, UrlTarget(url).port)

\* handle_http up to the first use of a socket
Route(data) ==
    LET first_line == Split(data, CRLF)[1]
        parts      == Split(first_line, SP)
    IN IF IsControl(first_line)
       THEN [route |-> "control", connect |-> FALSE, host |-> <<>>, port |-> 0]
       ELSE IF Len(parts) < 2 THEN Dropped
       ELSE IF parts[1] = CONNECT THEN ConnectTarget(parts[2])
       ELSE OtherTarget(data, parts[2])

\* the lines written to the client
Line200 == "HTTP/1.1 200 Connection Established"
Line502 == "HTTP/1.1 502 Bad Gateway"
Line500 == "HTTP/1.1 500 Internal Server Error"
Line200OK == "HTTP/1.1 200 OK"
\* a chunk relayed from the backend, and one relayed from the client
FromBackend == "backend bytes"
FromClient == "client bytes"

\* no response body
NoBody == [title |-> None, old_ip |-> None, port_label |-> None, port |-> 0,
           new_ip |-> None, time |-> None]

\* a rotation response that leaves the port out
RotationBodyNoPort(pool_size, old_ip, port, new_ip) ==
    [title |-> "IP Rotation Started", old_ip |-> old_ip, port_label |-> None,
     port |-> 0, new_ip |-> new_ip, time |-> "0.1s"]

\* the body of the rotation response
RotationBody(pool_size, old_ip, port, new_ip) ==
    [title |-> IF pool_size = 1 THEN "IP Renewal Started" ELSE "IP Rotation Started",
     old_ip |-> IF old_ip = Pending THEN "Hazirlaniyor" ELSE old_ip,
     port_label |-> IF pool_size = 1 THEN "Port" ELSE "New Port",
     port |-> port,
     new_ip |-> IF new_ip = Pending THEN "Connecting..." ELSE new_ip,
     time |-> "0.1s"]

\* the handler of a connection just accepted: BaseRequestHandler.setup
Session(req) ==
    [pc |-> "accepted", req |-> req, data |-> Format(req), connect |-> FALSE,
     host |-> <<>>, port |-> 0, tor_port |-> 0, dial |-> "none",
     out |-> <<>>, sent |-> <<>>, dials |-> 0, lookups |-> 0, relayed |-> FALSE,
     quiet |-> TRUE, idx0 |-> 0, n0 |-> 0,
     instance |-> NoInstance, old_ip |-> None, pool_size |-> 0,
     new_instance |-> NoInstance, body |-> NoBody]

\* socketserver accepts a connection and starts its handler thread
Accept(req) ==
    /\ served < MaxConn
    /\ sess.pc \in {"idle", "closed"}
    /\ sess' = Session(req)
    /\ served' = served + 1
    /\ UNCHANGED <<mgrVars, obsVars, labVars, calls>>

\* handle: the peek, detect_protocol, the read of the request and
\* handle_http up to its first use of the manager
Handle ==
    /\ sess.pc = "accepted"
    /\ sess' =
         IF sess.data = <<>> \/ detect_protocol(ByteOf(sess.data[1])) # "HTTP"
         THEN [sess EXCEPT !.pc = "closed"]
         ELSE LET r == Route(sess.data)
              IN CASE r.route = "control" -> [sess EXCEPT !.pc = "rot_get"]
                   [] r.route = "drop"    -> [sess EXCEPT !.pc = "closed"]
                   [] OTHER -> [sess EXCEPT !.pc = "port", !.connect = r.connect,
                                            !.host = r.host, !.port = r.port]
    /\ UNCHANGED <<mgrVars, obsVars, labVars, served, calls>>

\* connect_to_tor, get_proxy_port: `if self.instances:`.  With an empty
\* list the port is 0, connect_to_tor returns None and 502 is written.
PortCheck ==
    /\ sess.pc = "port"
    /\ sess' = IF instances = <<>>
               THEN [sess EXCEPT !.pc = "closed", !.dial = "failed",
                                 !.out = Append(@, Line502)]
               ELSE [sess EXCEPT !.pc = "port_index"]
    /\ UNCHANGED <<mgrVars, obsVars, labVars, served, calls>>

\* get_proxy_port: `self.instances[self.current_index]`.  An IndexError
\* leaves connect_to_tor and handle_http and is swallowed by handle.
PortIndex ==
    /\ sess.pc = "port_index"
    /\ sess' = IF current_index < Len(instances)
               THEN [sess EXCEPT !.pc = "dial",
                       !.tor_port = inst[instances[current_index + 1]].socks_port]
               ELSE [sess EXCEPT !.pc = "closed", !.dial = "raised"]
    /\ UNCHANGED <<mgrVars, obsVars, labVars, served, calls>>

\* what can become of the connection to the SOCKS port and its handshake
DialOutcomes == {"refused", "no method", "rejected", "ok"}

\* a handler that relays without announcing the tunnel
EstablishedSilently(s) ==
    [s EXCEPT !.pc = "relay", !.dial = "ok", !.sent = s.data]

\* what handle_http does with an established backend socket
Established(s) ==
    IF s.connect
    THEN [s EXCEPT !.pc = "relay", !.dial = "ok", !.out = Append(@, Line200)]
    ELSE [s EXCEPT !.pc = "relay", !.dial = "ok", !.sent = s.data]

\* what handle_http does when connect_to_tor returned None
Refused(s) ==
    [s EXCEPT !.pc = "closed", !.dial = "failed", !.out = Append(@, Line502)]

\* connect_to_tor from the socket on, and the branch of handle_http on its
\* result
Dial(outcome) ==
    /\ sess.pc = "dial"
    /\ sess' = IF outcome = "ok"
               THEN Established([sess EXCEPT !.dials = @ + 1])
               ELSE Refused([sess EXCEPT !.dials = @ + 1])
    /\ UNCHANGED <<mgrVars, obsVars, labVars, served, calls>>

\* how often x occurs in s
Count(s, x) == Cardinality({k \in 1..Len(s) : s[k] = x})

\* relay_data, forward(remote_socket, client_socket): one chunk
PumpToClient ==
    /\ sess.pc = "relay"
    /\ Count(sess.out, FromBackend) < MaxChunks
    /\ sess' = [sess EXCEPT !.out = Append(@, FromBackend), !.relayed = TRUE]
    /\ UNCHANGED <<mgrVars, obsVars, labVars, served, calls>>

\* relay_data, forward(client_socket, remote_socket): one chunk
PumpToBackend ==
    /\ sess.pc = "relay"
    /\ Count(sess.sent, FromClient) < MaxChunks
    /\ sess' = [sess EXCEPT !.sent = Append(@, FromClient), !.relayed = TRUE]
    /\ UNCHANGED <<mgrVars, obsVars, labVars, served, calls>>

\* relay_data returns and handle closes the client socket
RelayEnd ==
    /\ sess.pc = "relay"
    /\ sess' = [sess EXCEPT !.pc = "closed", !.relayed = TRUE]
    /\ UNCHANGED <<mgrVars, obsVars, labVars, served, calls>>

\* a control path that closes without a response when there is no instance
RotGetSilent ==
    /\ sess.pc = "rot_get"
    /\ sess' = IF GetCurrentInstance.raised \/ GetCurrentInstance.value = NoInstance
               THEN [sess EXCEPT !.pc = "closed"]
               ELSE [sess EXCEPT !.pc = "rot_old",
                                 !.instance = GetCurrentInstance.value,
                                 !.idx0 = current_index, !.n0 = Len(instances)]
    /\ UNCHANGED <<mgrVars, obsVars, labVars, served, calls>>

\* the control path: get_current_instance.  None gives the 500 of line
\* 101, an IndexError the 500 of the except clause.
RotGet ==
    /\ sess.pc = "rot_get"
    /\ sess' = IF GetCurrentInstance.raised \/ GetCurrentInstance.value = NoInstance
               THEN [sess EXCEPT !.pc = "closed", !.out = Append(@, Line500)]
               ELSE [sess EXCEPT !.pc = "rot_old",
                                 !.instance = GetCurrentInstance.value,
                                 !.idx0 = current_index, !.n0 = Len(instances)]
    /\ UNCHANGED <<mgrVars, obsVars, labVars, served, calls>>

\* the control path: old_ip = instance.get_ip(max_retries=1, retry_delay=0)
RotOldIp(outcomes) ==
    /\ sess.pc = "rot_old"
    /\ LET r == GetIp(inst[sess.instance], now, outcomes)
       IN /\ inst' = [inst EXCEPT ![sess.instance] = r.inst]
          /\ sess' = [sess EXCEPT !.pc = "rot_switch", !.old_ip = r.value,
                                  !.lookups = @ + r.lookups]
    /\ UNCHANGED <<count, base_socks_port, base_control_port, instances,
                   current_index, warm, now, obsVars, labVars, served, calls>>

\* the control path: pool_size = len(instances), then
\* switch_to_next_instance()
RotSwitch ==
    /\ sess.pc = "rot_switch"
    /\ switch_to_next_instance
    /\ sess' = [sess EXCEPT !.pc = "rot_new", !.pool_size = Len(instances),
                            !.new_instance = SwitchToNext.value]
    /\ UNCHANGED <<obsVars, labVars, served, calls>>

\* the control path: new_ip = new_instance.get_ip(...) and the response;
\* with new_instance None the AttributeError gives the 500 of the except
\* clause
RotNewIp(outcomes) ==
    /\ sess.pc = "rot_new"
    /\ IF sess.new_instance = NoInstance
       THEN /\ sess' = [sess EXCEPT !.pc = "closed", !.out = Append(@, Line500)]
            /\ UNCHANGED inst
       ELSE LET r == GetIp(inst[sess.new_instance], now, outcomes)
            IN /\ inst' = [inst EXCEPT ![sess.new_instance] = r.inst]
               /\ sess' = [sess EXCEPT
                             !.pc = "closed",
                             !.lookups = @ + r.lookups,
                             !.out = Append(@, Line200OK),
                             !.body = RotationBody(sess.pool_size, sess.old_ip,
                                        inst[sess.new_instance].socks_port, r.value)]
    /\ UNCHANGED <<count, base_socks_port, base_control_port, instances,
                   current_index, warm, now, obsVars, labVars, served, calls>>

(***************************************************************************)
(* connect_to_tor and relay_data socket by socket.  wire.sock is the       *)
(* socket connect_to_tor opens, wire.client the accepted socket; a socket  *)
(* is "closed" once close() was called on it.  up is the thread            *)
(* forward(client_socket, remote_socket), down the thread                  *)
(* forward(remote_socket, client_socket).                                  *)
(***************************************************************************)
\* no socket has been opened for the connection
NoWire ==
    [step |-> "none", sock |-> "none", client |-> "open",
     up |-> "idle", down |-> "idle", up_end |-> "none", down_end |-> "none",
     returned |-> FALSE,
     at_return |-> [finished |-> FALSE, sock |-> "none", client |-> "open"]]

\* what a recv of a SOCKS reply can come to: an exception, no byte, one
\* byte, a reply whose second byte is not 0, a reply whose second byte is 0
SocksReplies == {"raises", "empty", "short", "rejected", "ok"}

\* the two tests of a reply: `if not resp or resp[1] != 0x00` closes the
\* socket and returns None; an exception of recv, or the IndexError of
\* resp[1] on a reply of one byte, goes to the except clause, which returns
\* None and closes nothing
AfterReply(w, reply, next) ==
    IF reply = "ok" THEN [w EXCEPT !.step = next]
    ELSE IF reply \in {"empty", "rejected"}
         THEN [w EXCEPT !.step = "failed", !.sock = "closed"]
         ELSE [w EXCEPT !.step = "failed"]

\* connect_to_tor, lines 68-72: the socket is created, connected to the
\* SOCKS port and sent the greeting; any of it may raise
DialConnect(o) ==
    /\ sess.pc = "dial"
    /\ sess.dials = 0
    /\ wire' = [NoWire EXCEPT !.sock = "open",
                             !.step = IF o = "ok" THEN "method" ELSE "failed"]
    /\ sess' = IF o = "ok" THEN [sess EXCEPT !.dials = 1]
               ELSE Refused([sess EXCEPT !.dials = 1])
    /\ UNCHANGED <<mgrVars, obsVars, trace, callers, served, calls, run, backend>>

\* connect_to_tor, lines 73-76: the reply to the greeting
DialMethod(reply) ==
    /\ sess.pc = "dial"
    /\ wire.step = "method"
    /\ wire' = AfterReply(wire, reply, "request")
    /\ sess' = IF reply = "ok" THEN sess ELSE Refused(sess)
    /\ UNCHANGED <<mgrVars, obsVars, trace, callers, served, calls, run, backend>>

\* connect_to_tor, lines 78-83: the CONNECT request is packed and sent;
\* struct.pack raises for a port it cannot encode, sendall may raise.  (The
\* hosts of the model are short enough for the length byte.)
DialRequest(o) ==
    /\ sess.pc = "dial"
    /\ wire.step = "request"
    /\ LET sent == sess.port \in 0..MaxPort /\ o = "ok"
       IN /\ wire' = [wire EXCEPT !.step = IF sent THEN "reply" ELSE "failed"]
          /\ sess' = IF sent THEN sess ELSE Refused(sess)
    /\ UNCHANGED <<mgrVars, obsVars, trace, callers, served, calls, run, backend>>

\* connect_to_tor, lines 85-90, then handle_http with the socket returned:
\* the line 200 or the request is sent and relay_data starts its two threads
DialReply(reply) ==
    /\ sess.pc = "dial"
    /\ wire.step = "reply"
    /\ wire' = IF reply = "ok"
               THEN [wire EXCEPT !.step = "connected", !.up = "recv", !.down = "recv"]
               ELSE AfterReply(wire, reply, "connected")
    /\ sess' = IF reply = "ok" THEN Established(sess) ELSE Refused(sess)
    /\ UNCHANGED <<mgrVars, obsVars, trace, callers, served, calls, run, backend>>

\* forward(client_socket, remote_socket) leaves its loop: recv returned no
\* data ("eof"), or recv or sendall raised ("error")
UpEnds(how) ==
    /\ wire.up = "recv"
    /\ wire' = [wire EXCEPT !.up = "shutdown", !.up_end = how]
    /\ UNCHANGED <<mgrVars, obsVars, trace, callers, connVars, run, backend>>

\* forward(remote_socket, client_socket) leaves its loop
DownEnds(how) ==
    /\ wire.down = "recv"
    /\ wire' = [wire EXCEPT !.down = "shutdown", !.down_end = how]
    /\ UNCHANGED <<mgrVars, obsVars, trace, callers, connVars, run, backend>>

\* a recv that wakes for no reason of its own
RecvNeverReturns(w, src) == FALSE

\* source.recv(8192) is certain to return or raise without a byte from the
\* peer: the socket was closed under it (after the shutdown of the other
\* thread, or by handle), or it has a timeout and stays silent that long
RecvReturns(w, src) ==
    \/ w[src] = "closed"
    \/ (IF src = "client" THEN ClientTimeout ELSE DialTimeout) > 0

\* why it does: "closed", or the "timeout" of the socket
Woken(w, src) == IF w[src] = "closed" THEN "closed" ELSE "timeout"

\* forward(client_socket, remote_socket) leaves its loop with no byte from
\* the client
UpWakes ==
    /\ wire.up = "recv"
    /\ RecvReturns(wire, "client")
    /\ wire' = [wire EXCEPT !.up = "shutdown", !.up_end = Woken(wire, "client")]
    /\ UNCHANGED <<mgrVars, obsVars, trace, callers, connVars, run, backend>>

\* forward(remote_socket, client_socket) leaves its loop with no byte from
\* the backend
DownWakes ==
    /\ wire.down = "recv"
    /\ RecvReturns(wire, "sock")
    /\ wire' = [wire EXCEPT !.down = "shutdown", !.down_end = Woken(wire, "sock")]
    /\ UNCHANGED <<mgrVars, obsVars, trace, callers, connVars, run, backend>>

\* the finally clause of forward(client_socket, remote_socket):
\* destination.shutdown(SHUT_RDWR) and then destination.close(), in one try;
\* when shutdown raises close is not reached
UpCloses(o) ==
    /\ wire.up = "shutdown"
    /\ wire' = [wire EXCEPT !.up = "done",
                            !.sock = IF o = "ok" THEN "closed" ELSE @]
    /\ UNCHANGED <<mgrVars, obsVars, trace, callers, connVars, run, backend>>

\* the finally clause of forward(remote_socket, client_socket)
DownCloses(o) ==
    /\ wire.down = "shutdown"
    /\ wire' = [wire EXCEPT !.down = "done",
                            !.client = IF o = "ok" THEN "closed" ELSE @]
    /\ UNCHANGED <<mgrVars, obsVars, trace, callers, connVars, run, backend>>

\* relay_data returns: each join has ended, by the end of its thread or by
\* its timeout of 30 seconds; then handle closes the client socket
RelayReturns ==
    /\ sess.pc = "relay"
    /\ wire.step = "connected"
    /\ ~wire.returned
    /\ wire' = [wire EXCEPT
                  !.returned = TRUE,
                  !.at_return = [finished |-> wire.up = "done" /\ wire.down = "done",
                                 sock |-> wire.sock, client |-> wire.client],
                  !.client = "closed"]
    /\ sess' = [sess EXCEPT !.pc = "closed", !.relayed = TRUE]
    /\ UNCHANGED <<mgrVars, obsVars, trace, callers, served, calls, run, backend>>

\* an owner whose call ends the connection being handled
DisturbedAndCut(s) == [s EXCEPT !.pc = "closed", !.quiet = FALSE]

\* a call of the owner while the control path is being handled, or after
\* it and before the next connection, is recorded with the connection
Disturbed(s) ==
    IF s.req.kind = "rotate" /\ s.pc \in {"rot_old", "rot_switch", "rot_new", "closed"}
    THEN [s EXCEPT !.quiet = FALSE] ELSE s

\* the owner's calls, made while the server runs and has connections to
\* handle
OwnerCall ==
    /\ calls < MaxCalls
    /\ sess.pc # "closed" \/ served < MaxConn
    /\ calls' = calls + 1
    /\ sess' = Disturbed(sess)
    /\ UNCHANGED <<obsVars, labVars, served>>

OwnerStartPool(ok) == start_pool(ok) /\ OwnerCall

OwnerStopPool == stop_pool /\ OwnerCall

OwnerRotate == switch_to_next_instance /\ OwnerCall

\* TorPoolManager.__init__, with the base ports given
Constructed(sizes, sbases, cbases) ==
    /\ count \in sizes
    /\ base_socks_port \in sbases
    /\ base_control_port \in cbases
    /\ instances = <<>>
    /\ current_index = 0
    /\ inst = <<>>
    /\ warm = <<>>
    /\ now = StartTime

\* no connection has been accepted
NoConnection ==
    /\ sess = [Session(NoRequest) EXCEPT !.pc = "idle"]
    /\ served = 0
    /\ calls = 0

(***************************************************************************)
(* switch_to_next_instance called from several threads (the handler of the *)
(* control path, MainWindow.manual_rotate_ip and auto_rotate_ip).  The     *)
(* statement self.current_index = (self.current_index + 1) %               *)
(* len(self.instances) reads the index and writes it in separate steps,    *)
(* and nothing keeps another thread from running in between.               *)
(***************************************************************************)
\* a thread that has not called yet: idx and n are what it read for line
\* 379, got the instance its call returned, renews the instance it handed
\* to its background thread
IdleThread ==
    [pc |-> "idle", idx |-> 0, n |-> 0, got |-> NoInstance,
     renews |-> NoInstance, ip |-> None, old |-> None, route |-> None,
     result |-> None]

\* lines 357-379: the tests of the list and the reads of the index and of
\* the length
RotateReads(t) ==
    /\ callers[t].pc = "idle"
    /\ IF Len(instances) < 2
       THEN /\ callers' = [callers EXCEPT ![t].pc = "done",
                                          ![t].got = SwitchToNext.value,
                                          ![t].renews = SwitchToNext.renew]
            /\ warm' = Spawn(warm, SwitchToNext)
       ELSE /\ callers' = [callers EXCEPT ![t].pc = "write",
                                          ![t].idx = current_index,
                                          ![t].n = Len(instances)]
            /\ UNCHANGED warm
    /\ UNCHANGED <<count, base_socks_port, base_control_port, instances,
                   current_index, inst, now, obsVars, connVars, trace, wire, run, backend>>

\* line 379: the index is stored
RotateWrites(t) ==
    /\ callers[t].pc = "write"
    /\ current_index' = NextIndex(callers[t].idx, callers[t].n)
    /\ callers' = [callers EXCEPT ![t].pc = "pick"]
    /\ UNCHANGED <<count, base_socks_port, base_control_port, instances,
                   inst, warm, now, obsVars, connVars, trace, wire, run, backend>>

\* line 380: the index is read again for the instance to return
RotatePicks(t) ==
    /\ callers[t].pc = "pick"
    /\ callers' = [callers EXCEPT ![t].pc = "old",
                                  ![t].got = instances[current_index + 1]]
    /\ UNCHANGED <<mgrVars, obsVars, connVars, trace, wire, run, backend>>

\* the instance lines 382-383 find before the index, as the index is then
OldInstance == instances[OldIndex(current_index, Len(instances)) + 1]

\* lines 382-401: the index is read once more for the instance before it,
\* the background thread is started on that one and the call returns
RotateSpawns(t) ==
    /\ callers[t].pc = "old"
    /\ callers' = [callers EXCEPT ![t].pc = "done", ![t].renews = OldInstance]
    /\ warm' = Append(warm, [inst |-> OldInstance, pc |-> "renew"])
    /\ UNCHANGED <<count, base_socks_port, base_control_port, instances,
                   current_index, inst, now, obsVars, connVars, trace, wire, run, backend>>

(***************************************************************************)
(* IpCheckWorker.run on several pool threads for one instance: get_ip,     *)
(* then get_country for a valid address.  get_country takes the proxies    *)
(* off the session the instance shares with get_ip, asks, and puts back    *)
(* what it had found.                                                      *)
(***************************************************************************)
\* the retries IpCheckWorker.run asks for
WorkerRetries == 3

\* run, line 333: ip = self.instance.get_ip(max_retries=3, retry_delay=1);
\* route is the way its lookups went, None when the cache answered
WorkerGetIp(t, replies) ==
    /\ callers[t].pc = "idle"
    /\ inst # <<>>
    /\ LET r == GetIp(inst[1], now, OutcomesOf(replies))
       IN /\ inst' = [inst EXCEPT ![1] = r.inst]
          /\ callers' = [callers EXCEPT
                ![t].pc = IF r.value = Pending THEN "done" ELSE "country",
                ![t].ip = r.value,
                ![t].route = IF r.lookups = 0 THEN None ELSE inst[1].proxies]
    /\ UNCHANGED <<count, base_socks_port, base_control_port, instances,
                   current_index, warm, now, obsVars, connVars, trace, wire, run, backend>>

\* get_country: old_proxies = self.session.proxies
CountrySave(t) ==
    /\ callers[t].pc = "country"
    /\ callers' = [callers EXCEPT ![t].pc = "clear",
                                  ![t].old = inst[1].proxies]
    /\ UNCHANGED <<mgrVars, obsVars, connVars, trace, wire, run, backend>>

\* get_country: self.session.proxies = {}
CountryClear(t) ==
    /\ callers[t].pc = "clear"
    /\ inst' = [inst EXCEPT ![1].proxies = "direct"]
    /\ callers' = [callers EXCEPT ![t].pc = "request"]
    /\ UNCHANGED <<count, base_socks_port, base_control_port, instances,
                   current_index, warm, now, obsVars, connVars, trace, wire, run, backend>>

\* get_country: the request, answered or not, and the finally clause
\* self.session.proxies = old_proxies
CountryRestore(t) ==
    /\ callers[t].pc = "request"
    /\ inst' = [inst EXCEPT ![1].proxies = callers[t].old]
    /\ callers' = [callers EXCEPT ![t].pc = "done"]
    /\ UNCHANGED <<count, base_socks_port, base_control_port, instances,
                   current_index, warm, now, obsVars, connVars, trace, wire, run, backend>>

\* renew_ip on the same instance meanwhile, from the thread a rotation
\* started or from MainWindow
RenewIp(ok) ==
    /\ inst # <<>>
    /\ inst' = [inst EXCEPT ![1] = Renewed(@, ok)]
    /\ UNCHANGED <<count, base_socks_port, base_control_port, instances,
                   current_index, warm, now, obsVars, connVars, labVars>>

(***************************************************************************)
(* start_pool step by step.  callers[t] is the future of the t-th start()  *)
(* submitted to the executor: its pc is "running" until start() ends, then *)
(* "done" with the result and, in n, its place in the order of completion, *)
(* and "taken" once the loop over zip(launched_instances, futures) has     *)
(* read it.  ret is kept while the call runs: first and before are the     *)
(* numbers of instances constructed and enrolled before it, ok the         *)
(* positions enrolled so far.                                              *)
(***************************************************************************)
\* what a future holds when start() has ended
StartResults == {"True", "False", "raised"}

\* the futures that have completed
Completed == {t \in 1..MaxCallers : callers[t].pc \in {"done", "taken"}}
\* the futures the loop has read
Taken == {t \in 1..MaxCallers : callers[t].pc = "taken"}

\* a loop that enrols whatever did not raise
EnrolsUnlessRaised(res) == res # "raised"

\* `if fut.result(): self.instances.append(inst)`, inside try/except
Enrols(res) == res = "True"

\* start_pool, lines 305-312: the instances are constructed and their
\* start() submitted
PoolLaunches ==
    /\ ret.op # "launching"
    /\ calls < MaxCalls
    /\ count <= MaxCallers
    /\ Len(inst) + count <= MaxInstances
    /\ inst' = inst \o Launched(count, base_socks_port, base_control_port)
    /\ callers' = [t \in 1..MaxCallers |->
                     IF t <= count THEN [IdleThread EXCEPT !.pc = "running"]
                     ELSE IdleThread]
    /\ ret' = [op |-> "launching", raised |-> FALSE, value |-> NoInstance,
               first |-> Len(inst), ok |-> {}, before |-> Len(instances)]
    /\ calls' = calls + 1
    /\ UNCHANGED <<count, base_socks_port, base_control_port, instances,
                   current_index, warm, now, rotBase, rotLog, sess, served,
                   trace, wire, run, backend>>

\* the start() of the t-th instance ends, whichever others have
FutureEnds(t, res) ==
    /\ callers[t].pc = "running"
    /\ inst' = [inst EXCEPT ![ret.first + t] = Started(@, res = "True")]
    /\ callers' = [callers EXCEPT ![t].pc = "done", ![t].result = res,
                                  ![t].n = Cardinality(Completed) + 1]
    /\ UNCHANGED <<count, base_socks_port, base_control_port, instances,
                   current_index, warm, now, obsVars, connVars, trace, wire,
                   run, backend>>

\* lines 313-318: the loop waits for the next future in the order of
\* submission and enrols its instance
PoolEnrols ==
    /\ ret.op = "launching"
    /\ LET k == Cardinality(Taken) + 1
       IN /\ k <= count
          /\ callers[k].pc = "done"
          /\ callers' = [callers EXCEPT ![k].pc = "taken"]
          /\ IF Enrols(callers[k].result)
             THEN /\ instances' = Append(instances, ret.first + k)
                  /\ ret' = [ret EXCEPT !.ok = @ \cup {k}]
             ELSE UNCHANGED <<instances, ret>>
    /\ UNCHANGED <<count, base_socks_port, base_control_port, current_index,
                   inst, warm, now, rotBase, rotLog, connVars, trace, wire, run, backend>>

\* lines 320-333: the readiness wait, which changes nothing, and the test
\* of the list
PoolReturns ==
    /\ ret.op = "launching"
    /\ Cardinality(Taken) = count
    /\ ret' = [ret EXCEPT !.op = "start_pool",
                          !.raised = PoolStartRaises(instances)]
    /\ UNCHANGED <<mgrVars, rotBase, rotLog, connVars, labVars>>

(***************************************************************************)
(* One TorInstance call by call.  start() is followed step by step; run.pc *)
(* is where it is, run.proc the operating system's process the instance    *)
(* spawned, run.signals the terminate() and kill() calls made, run.probes  *)
(* the readiness probes that failed, run.returned what start() returned    *)
(* (None before, and again once stop() was called), run.last the call made *)
(* last and run.n how many were made.  start_pool is the only caller of    *)
(* start(), on an instance it has just constructed.                        *)
(***************************************************************************)
NoCall == [op |-> "none", ok |-> TRUE, held |-> FALSE]

\* a constructed instance no method of which was called
NotRun ==
    [pc |-> "idle", proc |-> "none", signals |-> 0, probes |-> 0,
     returned |-> None, last |-> NoCall, n |-> 0]

\* a method returns
Returns(r, op, ok, held) ==
    [r EXCEPT !.pc = "idle", !.n = @ + 1,
              !.last = [op |-> op, ok |-> ok, held |-> held]]

\* what terminate(), wait(timeout=5) and kill() can come to.  A running
\* process exits in time; or it does not, wait raises and kill() ends it;
\* or it exits just as the wait times out and kill() raises for it.  For a
\* process that had exited by itself terminate() finds nothing to signal,
\* or raises.
StopOutcomes(proc) ==
    IF proc = "running" THEN {"exits", "killed", "kill raises"}
    ELSE {"gone", "terminate raises"}

\* a stop() that keeps the handle when a call on the process raised
StopKeepsOnRaise(i, r, o) ==
    IF ~i.process THEN [inst |-> i, run |-> r]
    ELSE [inst |-> IF o \in {"terminate raises", "kill raises"}
                   THEN i ELSE Stopped(i),
          run |-> [r EXCEPT !.proc = "exited", !.signals = @ + 1]]

\* a stop() that gives the handle up and lets the process run
StopAbandons(i, r, o) == [inst |-> Stopped(i), run |-> r]

\* TorInstance.stop, the instance and its process afterwards: nothing
\* without a handle; with one, terminate() and after a wait that timed out
\* kill(), every exception swallowed, and the handle cleared
Stop(i, r, o) ==
    IF ~i.process THEN [inst |-> i, run |-> r]
    ELSE [inst |-> Stopped(i),
          run |-> [r EXCEPT
                     !.proc = IF @ = "none" THEN @ ELSE "exited",
                     !.signals = @ + (CASE o = "killed" -> 2
                                        [] o = "kill raises" -> 2
                                        [] OTHER -> 1)]]

\* start(), lines 128-129: an instance that holds a process returns True
StartCall ==
    /\ run.pc = "idle"
    /\ run.n = 0
    /\ inst # <<>>
    /\ run' = IF inst[1].process THEN Returns([run EXCEPT !.returned = "True"],
                                              "start", TRUE, TRUE)
              ELSE [run EXCEPT !.pc = "files"]
    /\ UNCHANGED <<mgrVars, obsVars, connVars, trace, wire, callers, backend>>

\* start(), lines 131-136: the files are prepared (every error swallowed);
\* without the binary it returns False
StartFiles(exe) ==
    /\ run.pc = "files"
    /\ run' = IF exe THEN [run EXCEPT !.pc = "spawn"]
              ELSE Returns([run EXCEPT !.returned = "False"], "start", FALSE, FALSE)
    /\ UNCHANGED <<mgrVars, obsVars, connVars, trace, wire, callers, backend>>

\* start(), lines 138-145 and 162-164: Popen gives the handle, or raises
\* and the except clause calls stop() and returns False
StartSpawn(ok) ==
    /\ run.pc = "spawn"
    /\ IF ok
       THEN /\ inst' = [inst EXCEPT ![1].process = TRUE]
            /\ run' = [run EXCEPT !.pc = "probe", !.proc = "running"]
       ELSE LET s == Stop(inst[1], run, "gone")
            IN /\ inst' = [inst EXCEPT ![1] = s.inst]
               /\ run' = Returns([s.run EXCEPT !.returned = "False"],
                                 "start", FALSE, FALSE)
    /\ UNCHANGED <<count, base_socks_port, base_control_port, instances,
                   current_index, warm, now, obsVars, connVars, trace, wire,
                   callers, backend>>

\* start(), lines 146-153 and 157-158: one readiness probe through the
\* SOCKS port, which only a running process answers; on the first that
\* succeeds the cache is cleared and True returned
StartProbe(ready) ==
    /\ run.pc = "probe"
    /\ run.probes < MaxProbes
    /\ ready => run.proc = "running"
    /\ IF ready
       THEN /\ inst' = [inst EXCEPT ![1].ip_cache = None]
            /\ run' = Returns([run EXCEPT !.returned = "True"], "start", TRUE, FALSE)
       ELSE /\ run' = [run EXCEPT !.probes = @ + 1]
            /\ UNCHANGED inst
    /\ UNCHANGED <<count, base_socks_port, base_control_port, instances,
                   current_index, warm, now, obsVars, connVars, trace, wire,
                   callers, backend>>

\* start(), lines 154-156: no probe succeeded; stop() and False
StartGivesUp(o) ==
    /\ run.pc = "probe"
    /\ run.probes = MaxProbes
    /\ o \in StopOutcomes(run.proc)
    /\ LET s == Stop(inst[1], run, o)
       IN /\ inst' = [inst EXCEPT ![1] = s.inst]
          /\ run' = Returns([s.run EXCEPT !.returned = "False"], "start", FALSE, FALSE)
    /\ UNCHANGED <<count, base_socks_port, base_control_port, instances,
                   current_index, warm, now, obsVars, connVars, trace, wire,
                   callers, backend>>

\* the process ends by itself
ProcessExits ==
    /\ run.proc = "running"
    /\ run' = [run EXCEPT !.proc = "exited"]
    /\ UNCHANGED <<mgrVars, obsVars, connVars, trace, wire, callers, backend>>

\* a call may be made: start() is not running, and the calls are counted
\* up to a bound
MayCall == run.pc = "idle" /\ inst # <<>> /\ run.n < MaxCalls

\* instance.stop()
StopCall(o) ==
    /\ MayCall
    /\ o \in StopOutcomes(run.proc)
    /\ LET s == Stop(inst[1], run, o)
       IN /\ inst' = [inst EXCEPT ![1] = s.inst]
          /\ run' = Returns([s.run EXCEPT !.returned = None], "stop",
                            o \in {"exits", "killed", "gone"}, inst[1].process)
    /\ UNCHANGED <<count, base_socks_port, base_control_port, instances,
                   current_index, warm, now, obsVars, connVars, trace, wire,
                   callers, backend>>

\* instance.renew_ip()
RenewCall(ok) ==
    /\ MayCall
    /\ inst' = [inst EXCEPT ![1] = Renewed(@, ok)]
    /\ run' = Returns(run, "renew_ip", ok, inst[1].process)
    /\ UNCHANGED <<count, base_socks_port, base_control_port, instances,
                   current_index, warm, now, obsVars, connVars, trace, wire,
                   callers, backend>>

\* instance.get_ip(max_retries=n)
GetIpCall(replies) ==
    /\ MayCall
    /\ LET r == GetIp(inst[1], now, OutcomesOf(replies))
       IN /\ inst' = [inst EXCEPT ![1] = r.inst]
          /\ run' = Returns(run, "get_ip", r.value # Pending, inst[1].process)
    /\ UNCHANGED <<count, base_socks_port, base_control_port, instances,
                   current_index, warm, now, obsVars, connVars, trace, wire,
                   callers, backend>>

\* instance.is_circuit_ready(): the answer of the control port, False on
\* every exception; nothing is assigned
ReadyCall(ok) ==
    /\ MayCall
    /\ run' = Returns(run, "is_circuit_ready", ok, inst[1].process)
    /\ UNCHANGED <<mgrVars, obsVars, connVars, trace, wire, callers, backend>>

\* a BackendWorker just constructed: no server yet, run not started
NoBackend ==
    [running |-> FALSE, loop |-> "idle", drive |-> "none", stop |-> "idle",
     shutdown_request |-> FALSE, is_shut_down |-> FALSE, socket |-> "none"]

\* no call has been traced
NoLab ==
    /\ trace = <<>>
    /\ wire = NoWire
    /\ callers = [t \in 1..MaxCallers |-> IdleThread]
    /\ run = NotRun
    /\ backend = NoBackend

\* nothing has been called yet
Unobserved ==
    /\ ret = [op |-> "init", raised |-> FALSE, value |-> NoInstance,
              first |-> 0, ok |-> {}, before |-> 0]
    /\ rotBase = 0
    /\ rotLog = <<>>

\* the outcomes of the lookups of one get_ip(max_retries=2) call
Outcomes2 == {<<a, b>> : a \in IPs \cup {None}, b \in IPs \cup {None}}
\* the outcome of the lookup of one get_ip(max_retries=1) call
Outcomes1 == {<<a>> : a \in IPs \cup {None}}

(***************************************************************************)
(* The manager driven by its owner alone (BackendWorker, MainWindow).  The *)
(* calls are observed: ret is what the last call returned or raised,       *)
(* rotLog the instances returned by the rotations since the list last      *)
(* changed.  The background threads the rotations start stay pending;      *)
(* their steps touch neither the list nor the index.                       *)
(***************************************************************************)
StartPool(ok) ==
    /\ start_pool(ok)
    /\ ret' = [op |-> "start_pool", raised |-> PoolStartRaises(instances'),
               value |-> NoInstance, first |-> Len(inst), ok |-> ok,
               before |-> Len(instances)]
    /\ rotLog' = <<>>
    /\ rotBase' = current_index
    /\ UNCHANGED <<connVars, labVars>>

StopPool ==
    /\ stop_pool
    /\ ret' = [op |-> "stop_pool", raised |-> FALSE, value |-> NoInstance,
               first |-> 0, ok |-> {}, before |-> Len(instances)]
    /\ rotLog' = <<>>
    /\ rotBase' = current_index
    /\ UNCHANGED <<connVars, labVars>>

\* MainWindow.manual_rotate_ip
Rotate ==
    /\ switch_to_next_instance
    /\ ret' = [op |-> "rotate", raised |-> FALSE, value |-> SwitchToNext.value,
               first |-> 0, ok |-> {}, before |-> Len(instances)]
    /\ rotLog' = IF SwitchToNext.value = NoInstance THEN rotLog
                 ELSE Append(rotLog, SwitchToNext.value)
    /\ UNCHANGED rotBase
    /\ UNCHANGED <<connVars, labVars>>

PoolNext ==
    \/ \E ok \in SUBSET (1..count) : StartPool(ok)
    \/ StopPool
    \/ Rotate

\* a manager constructed with the default base ports
PoolInit ==
    /\ Constructed(1..MaxCount, {DefaultSocksBase}, {DefaultControlBase})
    /\ Unobserved
    /\ NoConnection
    /\ NoLab

SpecPool == PoolInit /\ [][PoolNext]_vars

\* a manager constructed with any base ports, started once
PortsInit ==
    /\ Constructed(1..MaxCount, SocksBases, ControlBases)
    /\ Unobserved
    /\ NoConnection
    /\ NoLab

PortsNext ==
    /\ inst = <<>>
    /\ \E ok \in SUBSET (1..count) : StartPool(ok)

SpecPorts == PortsInit /\ [][PortsNext]_vars

(***************************************************************************)
(* The server: connections are handled while the owner of the manager      *)
(* calls it from its own thread.                                           *)
(***************************************************************************)
ServerInit ==
    /\ Constructed(1..2, {DefaultSocksBase}, {DefaultControlBase})
    /\ Unobserved
    /\ NoConnection
    /\ NoLab

\* the steps of the proxy path
ProxySteps ==
    \/ Handle
    \/ PortCheck
    \/ PortIndex
    \/ \E o \in DialOutcomes : Dial(o)
    \/ PumpToClient
    \/ PumpToBackend
    \/ RelayEnd

\* the steps of the control path
ControlSteps ==
    \/ RotGet
    \/ \E o \in Outcomes1 : RotOldIp(o)
    \/ RotSwitch
    \/ \E o \in Outcomes1 : RotNewIp(o)

OwnerSteps ==
    \/ \E ok \in SUBSET (1..count) : OwnerStartPool(ok)
    \/ OwnerStopPool
    \/ OwnerRotate

\* the background threads and the clock
BackgroundSteps ==
    \/ \E k \in 1..MaxWarm, ok \in BOOLEAN :
          WarmRenew(k, ok) /\ UNCHANGED <<obsVars, labVars, connVars>>
    \/ \E k \in 1..MaxWarm, o \in Outcomes2 :
          WarmLookup(k, o) /\ UNCHANGED <<obsVars, labVars, connVars>>
    \/ Tick /\ UNCHANGED <<obsVars, labVars, connVars>>

\* a pool started once and rotated again and again, while the threads the
\* rotations started run
WarmNext ==
    \/ inst = <<>> /\ \E ok \in SUBSET (1..count) : StartPool(ok)
    \/ Len(rotLog) < MaxWarm /\ Rotate
    \/ BackgroundSteps

SpecWarm == PoolInit /\ [][WarmNext]_vars

\* proxy requests, with the owner's calls in between
ProxyNext ==
    \/ \E r \in ProxyRequests : Accept(r)
    \/ ProxySteps
    \/ OwnerSteps

SpecProxy == ServerInit /\ [][ProxyNext]_vars

\* requests of every kind, with the owner's calls in between
ControlNext ==
    \/ \E r \in ControlRequests : Accept(r)
    \/ ProxySteps
    \/ ControlSteps
    \/ OwnerSteps

SpecControl == ServerInit /\ [][ControlNext]_vars

\* connections of which most are not served, with the owner's calls in
\* between
MixedNext ==
    \/ \E r \in MixedRequests : Accept(r)
    \/ ProxySteps
    \/ ControlSteps
    \/ OwnerSteps

SpecMixed == ServerInit /\ [][MixedNext]_vars

\* requests on and near the control path, with the owner's calls in between
PathsNext ==
    \/ \E r \in PathRequests : Accept(r)
    \/ ProxySteps
    \/ ControlSteps
    \/ OwnerSteps

SpecPaths == ServerInit /\ [][PathsNext]_vars

\* tunnels, with the owner's calls in between
TunnelNext ==
    \/ \E r \in TunnelRequests : Accept(r)
    \/ ProxySteps
    \/ OwnerSteps

SpecTunnel == ServerInit /\ [][TunnelNext]_vars

(***************************************************************************)
(* BackendWorker and HybridProxyServer.  The worker's run starts the pool,  *)
(* constructs the server and serves with handle_request while              *)
(* self.running (backend.drive = "handle_request"); the server class also  *)
(* has serve_forever, the loop of socketserver.BaseServer                  *)
(* (backend.drive = "serve_forever").  stop is called on another thread.   *)
(* backend.shutdown_request and backend.is_shut_down are the flag and the  *)
(* event of BaseServer: the event is set by serve_forever alone, when its  *)
(* loop ends, and shutdown() waits for it.                                 *)
(***************************************************************************)
\* run, up to its loop: self.running = True, the manager, start_pool, and
\* the server unless no instance was started
WorkerRun(ok) ==
    /\ backend.loop = "idle"
    /\ start_pool(ok)
    /\ backend' = IF instances' = <<>>
                  THEN [backend EXCEPT !.running = TRUE, !.loop = "returned",
                                       !.drive = "handle_request"]
                  ELSE [backend EXCEPT !.running = TRUE, !.loop = "serving",
                                       !.drive = "handle_request",
                                       !.socket = "open"]
    /\ UNCHANGED <<obsVars, connVars, trace, wire, callers, run>>

\* HybridProxyServer.serve_forever on a server constructed for a started
\* pool: BaseServer.serve_forever clears the event and enters its loop
ServeForever(ok) ==
    /\ backend.loop = "idle"
    /\ start_pool(ok)
    /\ backend' = [backend EXCEPT !.loop = "serving", !.drive = "serve_forever",
                                  !.socket = "open", !.is_shut_down = FALSE]
    /\ UNCHANGED <<obsVars, connVars, trace, wire, callers, run>>

\* the test of the loop: `while self.running` in run, `while not
\* self.__shutdown_request` in serve_forever
LoopGoesOn(b) ==
    IF b.drive = "handle_request" THEN b.running ELSE ~b.shutdown_request

\* the loop of run: handle_request accepts a connection and starts its
\* handler thread
LoopServes(r) ==
    /\ backend.loop = "serving"
    /\ LoopGoesOn(backend)
    /\ backend.socket = "open"
    /\ Accept(r)

\* the loop ends: run returns; serve_forever resets the flag and sets the
\* event in its finally clause
LoopEnds ==
    /\ backend.loop = "serving"
    /\ ~LoopGoesOn(backend)
    /\ backend' = IF backend.drive = "handle_request"
                  THEN [backend EXCEPT !.loop = "returned"]
                  ELSE [backend EXCEPT !.loop = "returned",
                                       !.shutdown_request = FALSE,
                                       !.is_shut_down = TRUE]
    /\ UNCHANGED <<mgrVars, obsVars, connVars, trace, wire, callers, run>>

\* BackendWorker.stop, called by the thread of MainWindow.stop_system:
\* self.running = False, and `if self.proxy_server:`
StopCalled ==
    /\ backend.stop = "idle"
    /\ backend.loop \in {"serving", "returned"}
    /\ backend' = [backend EXCEPT !.running = FALSE,
                                  !.stop = IF backend.socket = "none"
                                           THEN "pool" ELSE "shutdown"]
    /\ UNCHANGED <<mgrVars, obsVars, connVars, trace, wire, callers, run>>

\* HybridProxyServer.stop, shutdown(): the request flag is set
StopShutdown ==
    /\ backend.stop = "shutdown"
    /\ backend' = [backend EXCEPT !.shutdown_request = TRUE, !.stop = "wait"]
    /\ UNCHANGED <<mgrVars, obsVars, connVars, trace, wire, callers, run>>

\* shutdown(): self.__is_shut_down.wait() returns once the event is set
Waited(b) == b.is_shut_down

StopWakes ==
    /\ backend.stop = "wait"
    /\ Waited(backend)
    /\ backend' = [backend EXCEPT !.stop = "close"]
    /\ UNCHANGED <<mgrVars, obsVars, connVars, trace, wire, callers, run>>

\* HybridProxyServer.stop: server_close()
StopCloses ==
    /\ backend.stop = "close"
    /\ backend' = [backend EXCEPT !.socket = "closed", !.stop = "pool"]
    /\ UNCHANGED <<mgrVars, obsVars, connVars, trace, wire, callers, run>>

\* BackendWorker.stop: self.pool_manager.stop_pool()
StopTearsDown ==
    /\ backend.stop = "pool"
    /\ stop_pool
    /\ backend' = [backend EXCEPT !.stop = "done"]
    /\ UNCHANGED <<obsVars, connVars, trace, wire, callers, run>>

BackendInit ==
    /\ Constructed(1..2, {DefaultSocksBase}, {DefaultControlBase})
    /\ Unobserved
    /\ NoConnection
    /\ NoLab

BackendNext ==
    \/ \E ok \in SUBSET (1..count) : WorkerRun(ok)
    \/ \E ok \in SUBSET (1..count) : ServeForever(ok)
    \/ \E r \in PathRequests : LoopServes(r)
    \/ LoopEnds
    \/ StopCalled
    \/ StopShutdown
    \/ StopWakes
    \/ StopCloses
    \/ StopTearsDown
    \/ ProxySteps
    \/ ControlSteps

\* the loop and the thread calling stop take the steps they can take
BackendFairness ==
    /\ WF_vars(LoopEnds)
    /\ WF_vars(StopShutdown)
    /\ WF_vars(StopWakes)
    /\ WF_vars(StopCloses)
    /\ WF_vars(StopTearsDown)

SpecBackend == BackendInit /\ [][BackendNext]_vars /\ BackendFairness

(***************************************************************************)
(* The server with the sockets of a connection followed one by one.        *)
(***************************************************************************)
\* requests that reach connect_to_tor; the port of the last cannot be packed
SocketRequests ==
    { Request(CONNECT, "authority", <<"a">>, <<"4", "4", "3">>, <<>>),
      Request(GET, "abs", <<"a">>, <<>>, <<>>),
      Request(CONNECT, "authority", <<"a">>, <<"7", "0", "0", "0", "0">>, <<>>) }

\* the steps of connect_to_tor
DialSteps ==
    \/ \E o \in {"ok", "raises"} : DialConnect(o)
    \/ \E r \in SocksReplies : DialMethod(r)
    \/ \E o \in {"ok", "raises"} : DialRequest(o)
    \/ \E r \in SocksReplies : DialReply(r)

\* the steps of relay_data
RelaySteps ==
    \/ \E how \in {"eof", "error"} : UpEnds(how)
    \/ \E how \in {"eof", "error"} : DownEnds(how)
    \/ UpWakes
    \/ DownWakes
    \/ \E o \in {"ok", "raises"} : UpCloses(o)
    \/ \E o \in {"ok", "raises"} : DownCloses(o)
    \/ RelayReturns

SocketsNext ==
    \/ \E r \in SocketRequests : Accept(r)
    \/ Handle
    \/ PortCheck
    \/ PortIndex
    \/ DialSteps
    \/ RelaySteps
    \/ OwnerSteps

SpecSockets == ServerInit /\ [][SocketsNext]_vars

(***************************************************************************)
(* One relay at a time, its threads scheduled: a pool is started, and the  *)
(* next connection is followed once the threads of the last relay ended.   *)
(* A thread that can take a step takes it, and a recv that is certain to   *)
(* return does; nothing is assumed of what the peers send or close.        *)
(***************************************************************************)
\* no thread of a relay is running
PumpsAtRest == wire.up \in {"idle", "done"} /\ wire.down \in {"idle", "done"}

RelayNext ==
    \/ inst = <<>> /\ \E ok \in SUBSET (1..count) : OwnerStartPool(ok)
    \/ PumpsAtRest /\ \E r \in SocketRequests : Accept(r)
    \/ Handle
    \/ PortCheck
    \/ PortIndex
    \/ DialSteps
    \/ RelaySteps

RelayFairness ==
    /\ WF_vars(UpWakes)
    /\ WF_vars(DownWakes)
    /\ WF_vars(\E o \in {"ok", "raises"} : UpCloses(o))
    /\ WF_vars(\E o \in {"ok", "raises"} : DownCloses(o))

SpecRelay == ServerInit /\ [][RelayNext]_vars /\ RelayFairness

(***************************************************************************)
(* One relay at a time while the owner rotates and stops the pool it has   *)
(* started.                                                                *)
(***************************************************************************)
InFlightNext ==
    \/ RelayNext
    \/ OwnerStopPool
    \/ OwnerRotate

SpecInFlight == ServerInit /\ [][InFlightNext]_vars

(***************************************************************************)
(* A pool started once and then rotated by several threads at once.        *)
(***************************************************************************)
RotationsInit ==
    /\ Constructed(1..MaxCount, {DefaultSocksBase}, {DefaultControlBase})
    /\ Unobserved
    /\ NoConnection
    /\ NoLab

RotationsNext ==
    \/ inst = <<>> /\ \E ok \in SUBSET (1..count) : StartPool(ok)
    \/ inst # <<>> /\ \E t \in 1..MaxCallers : RotateReads(t)
    \/ \E t \in 1..MaxCallers : RotateWrites(t)
    \/ \E t \in 1..MaxCallers : RotatePicks(t)
    \/ \E t \in 1..MaxCallers : RotateSpawns(t)

SpecRotations == RotationsInit /\ [][RotationsNext]_vars

(***************************************************************************)
(* The classification of the first byte of a connection, for every byte.   *)
(***************************************************************************)
\* the values of header[0]
Bytes == 0..255

\* a call as it is traced
Call(op, arg, value) == [op |-> op, arg |-> arg, value |-> value]

\* handle: protocol = self.detect_protocol(header[0])
Detect(b) ==
    /\ trace' = <<Call("detect_protocol", b, detect_protocol(b))>>
    /\ UNCHANGED <<mgrVars, obsVars, connVars, wire, callers, run, backend>>

DetectInit ==
    /\ Constructed({1}, {DefaultSocksBase}, {DefaultControlBase})
    /\ Unobserved
    /\ NoConnection
    /\ NoLab

DetectNext == \E b \in Bytes : Detect(b)

SpecDetect == DetectInit /\ [][DetectNext]_vars

(***************************************************************************)
(* One instance and its identity cache: a pool of one is started, then     *)
(* get_ip and renew_ip are called on its instance, one call after the      *)
(* other, while the clock advances.  Every call is traced with the time,   *)
(* whether each reply its lookups could get was a failure, and the         *)
(* instance before and after it.                                           *)
(***************************************************************************)
\* every reply of rs is a failure
AllFailed(rs) == \A k \in 1..Len(rs) : rs[k] \in FailedReplies

IdCall(op, arg, value, lookups, replies, after) ==
    [op |-> op, arg |-> arg, value |-> value, t |-> now, lookups |-> lookups,
     failed |-> AllFailed(replies), before |-> inst[1], after |-> after]

\* the replies a get_ip(max_retries=n) call can get: n failures, or fewer
\* failures and then an identity, after which it asks no more; the failures
\* of one call are all of one kind
ReplySeqs(n) ==
    {[k \in 1..n |-> f] : f \in FailedReplies}
    \cup {[k \in 1..m |-> IF k < m THEN f ELSE Reply(FALSE, 200, "object", "str", ip)] :
            m \in 1..n, f \in FailedReplies, ip \in IPs}

\* instance.get_ip(max_retries=n), the lookups answered by replies
CallGetIp(n, replies) ==
    /\ inst # <<>>
    /\ Len(trace) < MaxTrace
    /\ LET r == GetIp(inst[1], now, OutcomesOf(replies))
       IN /\ inst' = [inst EXCEPT ![1] = r.inst]
          /\ trace' = Append(trace, IdCall("get_ip", n, r.value, r.lookups,
                                           replies, r.inst))
    /\ UNCHANGED <<count, base_socks_port, base_control_port, instances,
                   current_index, warm, now, obsVars, connVars, wire, callers, run, backend>>

\* instance.renew_ip(); ok is whether the control-channel exchange went
\* through
CallRenewIp(ok) ==
    /\ inst # <<>>
    /\ Len(trace) < MaxTrace
    /\ inst' = [inst EXCEPT ![1] = Renewed(@, ok)]
    /\ trace' = Append(trace, IdCall("renew_ip", ok, None, 0, <<>>,
                                     Renewed(inst[1], ok)))
    /\ UNCHANGED <<count, base_socks_port, base_control_port, instances,
                   current_index, warm, now, obsVars, connVars, wire, callers, run, backend>>

IdentityInit ==
    /\ Constructed({1}, {DefaultSocksBase}, {DefaultControlBase})
    /\ Unobserved
    /\ NoConnection
    /\ NoLab

IdentityNext ==
    \/ inst = <<>> /\ \E ok \in SUBSET (1..count) : StartPool(ok)
    \/ \E n \in RetryCounts : \E rs \in ReplySeqs(n) : CallGetIp(n, rs)
    \/ \E ok \in BOOLEAN : CallRenewIp(ok)
    \/ Tick /\ UNCHANGED <<obsVars, connVars, labVars>>

SpecIdentity == IdentityInit /\ [][IdentityNext]_vars

(***************************************************************************)
(* One instance looked up by the workers MainWindow.check_all_ips starts   *)
(* every 1500 ms, while the rotation renews it and the clock advances.     *)
(***************************************************************************)
LookupsInit ==
    /\ Constructed({1}, {DefaultSocksBase}, {DefaultControlBase})
    /\ Unobserved
    /\ NoConnection
    /\ NoLab

LookupsNext ==
    \/ inst = <<>> /\ StartPool({1})
    \/ \E t \in 1..MaxCallers : \E rs \in ReplySeqs(WorkerRetries) :
          WorkerGetIp(t, rs)
    \/ \E t \in 1..MaxCallers : CountrySave(t)
    \/ \E t \in 1..MaxCallers : CountryClear(t)
    \/ \E t \in 1..MaxCallers : CountryRestore(t)
    \/ \E ok \in BOOLEAN : RenewIp(ok)
    \/ Tick /\ UNCHANGED <<obsVars, connVars, labVars>>

SpecLookups == LookupsInit /\ [][LookupsNext]_vars

(***************************************************************************)
(* get_ip step by step, on one instance that threads of every kind (the    *)
(* handler of GET /rotate, the workers of check_all_ips, the thread a      *)
(* rotation started) call with no lock, while renew_ip is called on it.    *)
(* callers[t].n is the number of renewals that went through since the      *)
(* thread's lookup was sent.                                               *)
(***************************************************************************)
\* get_ip, lines 190-196: the cache test, and the lookup sent when the
\* cache is not fresh
GetIpAsks(t) ==
    /\ callers[t].pc = "idle"
    /\ inst # <<>>
    /\ callers' = IF CacheFresh(inst[1], now)
                  THEN [callers EXCEPT ![t].pc = "returned",
                                       ![t].result = inst[1].ip_cache]
                  ELSE [callers EXCEPT ![t].pc = "asked", ![t].n = 0]
    /\ UNCHANGED <<mgrVars, obsVars, connVars, trace, wire, run, backend>>

\* get_ip, lines 213-229: the response; an identity is written to the
\* cache with the time of the write, a failed lookup gives "..."
GetIpStores(t, o) ==
    /\ callers[t].pc = "asked"
    /\ IF o = None
       THEN /\ callers' = [callers EXCEPT ![t].pc = "returned",
                                          ![t].result = Pending]
            /\ UNCHANGED inst
       ELSE /\ inst' = [inst EXCEPT ![1].ip_cache = Seen(inst[1], o),
                                    ![1].ip_cache_time = now]
            /\ callers' = [callers EXCEPT ![t].pc = "stored",
                                          ![t].result = Seen(inst[1], o)]
    /\ UNCHANGED <<count, base_socks_port, base_control_port, instances,
                   current_index, warm, now, obsVars, connVars, trace, wire, run, backend>>

\* the thread is free for its next call
GetIpReturns(t) ==
    /\ callers[t].pc \in {"returned", "stored"}
    /\ callers' = [callers EXCEPT ![t] = IdleThread]
    /\ UNCHANGED <<mgrVars, obsVars, connVars, trace, wire, run, backend>>

\* a lookup that has seen a renewal go through since it was sent
Overtaken(c, ok) == IF c.pc = "asked" /\ ok THEN [c EXCEPT !.n = @ + 1] ELSE c

\* renew_ip on the instance, from any other thread, while lookups are on
\* their way
RenewMeanwhile(ok) ==
    /\ inst # <<>>
    /\ \A t \in 1..MaxCallers : callers[t].n < MaxTrace
    /\ inst' = [inst EXCEPT ![1] = Renewed(@, ok)]
    /\ callers' = [t \in 1..MaxCallers |-> Overtaken(callers[t], ok)]
    /\ UNCHANGED <<count, base_socks_port, base_control_port, instances,
                   current_index, warm, now, obsVars, connVars, trace, wire, run, backend>>

CacheNext ==
    \/ inst = <<>> /\ StartPool({1})
    \/ \E t \in 1..MaxCallers : GetIpAsks(t)
    \/ \E t \in 1..MaxCallers, o \in IPs \cup {None} : GetIpStores(t, o)
    \/ \E t \in 1..MaxCallers : GetIpReturns(t)
    \/ \E ok \in BOOLEAN : RenewMeanwhile(ok)
    \/ Tick /\ UNCHANGED <<obsVars, connVars, labVars>>

SpecCache == LookupsInit /\ [][CacheNext]_vars

(***************************************************************************)
(* start_pool called again and again on one manager, its starts ending in  *)
(* any order.                                                              *)
(***************************************************************************)
EnrolInit ==
    /\ Constructed(1..MaxCallers, {DefaultSocksBase}, {DefaultControlBase})
    /\ Unobserved
    /\ NoConnection
    /\ NoLab

EnrolNext ==
    \/ PoolLaunches
    \/ \E t \in 1..MaxCallers, res \in StartResults : FutureEnds(t, res)
    \/ PoolEnrols
    \/ PoolReturns

SpecEnrol == EnrolInit /\ [][EnrolNext]_vars

(***************************************************************************)
(* One instance, constructed as start_pool constructs its first, started   *)
(* once and then called by whoever holds it, while the clock advances and  *)
(* the process may end by itself.                                          *)
(***************************************************************************)
LifecycleInit ==
    /\ count = 1
    /\ base_socks_port = DefaultSocksBase
    /\ base_control_port = DefaultControlBase
    /\ instances = <<>>
    /\ current_index = 0
    /\ inst = Launched(1, DefaultSocksBase, DefaultControlBase)
    /\ warm = <<>>
    /\ now = StartTime
    /\ Unobserved
    /\ NoConnection
    /\ NoLab

LifecycleNext ==
    \/ StartCall
    \/ \E exe \in BOOLEAN : StartFiles(exe)
    \/ \E ok \in BOOLEAN : StartSpawn(ok)
    \/ \E ready \in BOOLEAN : StartProbe(ready)
    \/ \E o \in StopOutcomes(run.proc) : StartGivesUp(o)
    \/ ProcessExits
    \/ \E o \in StopOutcomes(run.proc) : StopCall(o)
    \/ \E ok \in BOOLEAN : RenewCall(ok)
    \/ \E rs \in ReplySeqs(1) : GetIpCall(rs)
    \/ \E ok \in BOOLEAN : ReadyCall(ok)
    \/ Tick /\ UNCHANGED <<obsVars, connVars, labVars>>

SpecLifecycle == LifecycleInit /\ [][LifecycleNext]_vars

(***************************************************************************)
(* Properties of the pool manager                                          *)
(***************************************************************************)
Min(a, b) == IF a < b THEN a ELSE b
Abs(a) == IF a < 0 THEN 0 - a ELSE a

\* C1: in a pool of N > 1 instances, the k-th of a run of consecutive
\* rotations returns the instance at index (a + k) mod N, a being the index
\* before the run, so the first N rotations return N different instances.
C1_RotationOrder ==
    Len(instances) > 1 =>
        LET n == Len(instances)
        IN /\ \A k \in 1..Len(rotLog) :
                rotLog[k] = instances[((rotBase + k) % n) + 1]
           /\ \A i, j \in 1..Min(n, Len(rotLog)) :
                i # j => rotLog[i] # rotLog[j]
           /\ current_index = (rotBase + Len(rotLog)) % n \/ rotLog = <<>>

\* a pool of three has been rotated through once and has come back to the
\* first instance returned
C1_Witness ==
    /\ Len(instances) = 3
    /\ Len(rotLog) = 4
    /\ rotLog[4] = rotLog[1]
    /\ rotLog[2] # rotLog[1] /\ rotLog[3] # rotLog[1]

\* C2: whenever the list of instances is not empty, current_index is an
\* index of it.
C2_IndexInRange ==
    instances # <<>> => (0 <= current_index /\ current_index < Len(instances))

\* C3: a rotation of a pool of one instance returns that instance and
\* changes neither the list nor the index.
C3_SingleRotation ==
    [][(Len(instances) = 1 /\ Len(rotLog') = Len(rotLog) + 1) =>
          /\ ret'.op = "rotate"
          /\ ret'.value = instances[1]
          /\ rotLog'[Len(rotLog')] = instances[1]
          /\ instances' = instances
          /\ current_index' = current_index]_vars

\* a pool of one has been rotated twice in a row
C3_Witness ==
    /\ Len(instances) = 1
    /\ Len(rotLog) >= 2
    /\ ret.op = "rotate" /\ ret.value = instances[1]

\* the instances the last start_pool constructed
LastLaunched == (ret.first + 1)..(ret.first + count)
\* the port numbers of the instances the last start_pool constructed
LastSocksPorts == {inst[k].socks_port : k \in LastLaunched}
LastControlPorts == {inst[k].control_port : k \in LastLaunched}
\* start_pool has given its i-th instance the ports base + 2i
PortsAllocated ==
    \A k \in LastLaunched :
        /\ inst[k].socks_port = base_socks_port + 2 * (k - ret.first - 1)
        /\ inst[k].control_port = base_control_port + 2 * (k - ret.first - 1)

\* C4 as stated: instance i gets the ports Bs + 2i and Bc + 2i, and the 2N
\* port numbers of the pool are pairwise distinct.
C4_AllPortsDistinct ==
    ret.op = "start_pool" =>
        /\ PortsAllocated
        /\ Cardinality(LastSocksPorts \cup LastControlPorts) = 2 * count

\* C4, amended: instance i gets the ports Bs + 2i and Bc + 2i; the N SOCKS
\* ports are pairwise distinct and so are the N control ports; a SOCKS port
\* equals a control port exactly when Bc - Bs is even and |Bc - Bs| <= 2(N-1).
C4_PortsAllocated ==
    ret.op = "start_pool" =>
        /\ PortsAllocated
        /\ Cardinality(LastSocksPorts) = count
        /\ Cardinality(LastControlPorts) = count
        /\ (LastSocksPorts \cap LastControlPorts # {}) <=>
              /\ (base_control_port - base_socks_port) % 2 = 0
              /\ Abs(base_control_port - base_socks_port) <= 2 * (count - 1)

\* start_pool has allocated three instances whose ports are all different,
\* the base ports being of different parity
C4_Witness ==
    /\ ret.op = "start_pool"
    /\ count = 3
    /\ (base_control_port - base_socks_port) % 2 = 1
    /\ Cardinality(LastSocksPorts \cup LastControlPorts) = 6

C17_ActivePortAndStop ==
    /\ instances # <<>> =>
          /\ current_index < Len(instances)
          /\ ~GetProxyPort.raised
          /\ GetProxyPort.value = inst[instances[current_index + 1]].socks_port
    /\ instances = <<>> => (~GetProxyPort.raised /\ GetProxyPort.value = 0)
    /\ ret.op = "stop_pool" =>
          /\ \A k \in 1..Len(inst) : ~inst[k].process
          /\ ~GetProxyPort.raised /\ GetProxyPort.value = 0
          /\ ~GetCurrentInstance.raised /\ GetCurrentInstance.value = NoInstance

(***************************************************************************)
(* Properties of the connection handler                                    *)
(***************************************************************************)
\* s holds x
Has(s, x) == \E k \in 1..Len(s) : s[k] = x

\* the request is CONNECT host:port with a decimal port
WellFormedConnect(r) ==
    r.method = CONNECT /\ r.kind = "authority" /\ r.thost # <<>> /\ IsDigits(r.tport)

\* the first header named Host, whatever its case; 0 for none
RECURSIVE FirstHostHeader(_, _)
FirstHostHeader(hs, k) ==
    IF k > Len(hs) THEN 0
    ELSE IF Lower(hs[k].name) = <<"h", "o", "s", "t">> THEN k
    ELSE FirstHostHeader(hs, k + 1)

PortOr80(port) == IF port = <<>> THEN 80 ELSE Decimal(port)

\* the target a request names: that of its absolute URI when it has a host,
\* otherwise that of its first Host header; no host when it has neither
NamedTarget(r) ==
    LET k == FirstHostHeader(r.headers, 1)
    IN IF r.kind = "abs" /\ r.thost # <<>>
       THEN [host |-> r.thost, port |-> PortOr80(r.tport)]
       ELSE IF k # 0
            THEN [host |-> r.headers[k].host, port |-> PortOr80(r.headers[k].port)]
            ELSE [host |-> <<>>, port |-> 80]

\* the request is one the proxy serves
Recognised(r) ==
    \/ WellFormedConnect(r)
    \/ r.method # CONNECT /\ r.kind \in {"abs", "origin"} /\ NamedTarget(r).host # <<>>

\* C6: for a well-formed CONNECT the line 200 Connection Established is
\* written exactly when the dial succeeded, and every chunk relayed from the
\* backend comes after it.
C6_TunnelAnnounced ==
    WellFormedConnect(sess.req) =>
        /\ Has(sess.out, Line200) <=> sess.dial = "ok"
        /\ \A k \in 1..Len(sess.out) :
             sess.out[k] = FromBackend => \E j \in 1..(k - 1) : sess.out[j] = Line200

\* a tunnel was announced and a chunk from the backend relayed through it
C6_Witness ==
    /\ WellFormedConnect(sess.req)
    /\ sess.dial = "ok"
    /\ sess.out = <<Line200, FromBackend>>

\* C7: a recognised request whose backend was not reached is answered 502
\* before the connection is closed.
C7_BadGateway ==
    (sess.pc = "closed" /\ Recognised(sess.req) /\ sess.dial # "ok") =>
        Has(sess.out, Line502)

\* C8: a request of another method is sent to the host and port it names,
\* and what the backend is sent after the dial is the request as read.
C8_TargetAndForward ==
    (sess.req.method # CONNECT /\ Recognised(sess.req)
        /\ sess.pc \notin {"idle", "accepted"}) =>
        /\ sess.host = NamedTarget(sess.req).host
        /\ sess.port = NamedTarget(sess.req).port
        /\ sess.dial = "ok" =>
             /\ SubSeq(sess.sent, 1, Len(sess.data)) = sess.data
             /\ \A k \in (Len(sess.data) + 1)..Len(sess.sent) : sess.sent[k] = FromClient

\* the control path was handled for a pool of two with no call of the
\* owner since the request was read
RotatedPoolOfTwo ==
    /\ sess.req.kind = "rotate"
    /\ sess.pc = "closed"
    /\ sess.n0 = 2
    /\ sess.quiet

\* the ports the body of the response names
PortsNamed(body) == IF body.port_label = None THEN {} ELSE {body.port}

\* C9 as stated: GET /rotate on a pool of two is answered 200 with a body
\* naming the old port and the new port, and the index has advanced by one
\* mod 2.
C9_OldAndNewPort ==
    RotatedPoolOfTwo =>
        /\ sess.out = <<Line200OK>>
        /\ inst[sess.instance].socks_port \in PortsNamed(sess.body)
        /\ inst[instances[current_index + 1]].socks_port \in PortsNamed(sess.body)
        /\ current_index = (sess.idx0 + 1) % 2

\* C9, amended: GET /rotate on a pool of two is answered 200 with a body
\* naming the old identity, the SOCKS port of the new active instance (as
\* New Port, the only port in it) and the new identity, and the index has
\* advanced by one mod 2.
C9_RotationResponse ==
    RotatedPoolOfTwo =>
        /\ sess.out = <<Line200OK>>
        /\ sess.body.title = "IP Rotation Started"
        /\ sess.body.old_ip \in IPs \cup {"Hazirlaniyor"}
        /\ sess.body.new_ip \in IPs \cup {"Connecting..."}
        /\ sess.body.port_label = "New Port"
        /\ PortsNamed(sess.body) = {inst[instances[current_index + 1]].socks_port}
        /\ sess.new_instance = instances[current_index + 1]
        /\ sess.instance = instances[sess.idx0 + 1]
        /\ current_index = (sess.idx0 + 1) % 2

\* the pool of two was rotated from its first to its second instance, whose
\* port differs and is the one in the response
C9_Witness ==
    /\ RotatedPoolOfTwo
    /\ sess.idx0 = 0 /\ current_index = 1
    /\ sess.body.port = DefaultSocksBase + PortStride
    /\ inst[sess.instance].socks_port = DefaultSocksBase
    /\ sess.out = <<Line200OK>>

\* the handler of the control path has dialed nothing, relayed nothing and
\* written at most the rotation response
NoDialNoRelay ==
    /\ sess.dials = 0
    /\ ~sess.relayed
    /\ sess.sent = <<>>
    /\ sess.out \in {<<>>, <<Line200OK>>, <<Line500>>}

\* C10 as stated: handling a request on the control path opens no connection
\* to a SOCKS port and starts no relay, and only the rotation response is
\* written.
C10_NoSocksConnection ==
    sess.req.kind = "rotate" => (NoDialNoRelay /\ sess.lookups = 0)

\* C10, amended: handling a request on the control path never calls the
\* dialer and starts no relay, and only the rotation response is written;
\* the identity lookups of the rotation do go through SOCKS ports.
C10_NoBackendDial ==
    sess.req.kind = "rotate" => NoDialNoRelay

\* a rotation was answered after two identity lookups through SOCKS ports
C10_Witness ==
    /\ sess.req.kind = "rotate"
    /\ sess.pc = "closed"
    /\ sess.out = <<Line200OK>>
    /\ sess.lookups = 2
    /\ sess.dials = 0

\* the control path found no active instance
NoActiveInstance ==
    /\ sess.req.kind = "rotate"
    /\ sess.pc = "closed"
    /\ sess.instance = NoInstance

\* C11: a request on the control path handled while the pool has no active
\* instance is answered 500 and nothing else, and no step of its handler
\* changes the index or the list of instances.
C11_NoInstance500 ==
    /\ [](NoActiveInstance =>
            /\ sess.out = <<Line500>>
            /\ sess.new_instance = NoInstance
            /\ sess.lookups = 0)
    /\ [][(sess'.req.kind = "rotate" /\ sess'.instance = NoInstance
             /\ sess' # sess /\ calls' = calls) =>
            (instances' = instances /\ current_index' = current_index)]_vars

\* a request on the control path was answered 500 by an empty pool
C11_Witness ==
    /\ NoActiveInstance
    /\ instances = <<>>
    /\ sess.out = <<Line500>>

(***************************************************************************)
(* Properties of the classification                                        *)
(***************************************************************************)
\* the byte values of the letters G, H, P, C and O
HttpLetters == {71, 72, 80, 67, 79}

\* C12: byte 4 is classified SOCKS4, byte 5 SOCKS5, each of the letters G,
\* H, P, C and O HTTP, and every other byte from 0 to 255 UNKNOWN.
C12_Classification ==
    \A k \in 1..Len(trace) :
        trace[k].op = "detect_protocol" =>
            trace[k].value =
                IF trace[k].arg = 4 THEN "SOCKS4"
                ELSE IF trace[k].arg = 5 THEN "SOCKS5"
                ELSE IF trace[k].arg \in HttpLetters THEN "HTTP"
                ELSE "UNKNOWN"

\* the letter O has been classified HTTP
C12_Witness ==
    /\ trace # <<>>
    /\ trace[1] = Call("detect_protocol", 79, "HTTP")

(***************************************************************************)
(* Properties of the identity cache                                        *)
(***************************************************************************)
\* the traced calls of get_ip
GetIpCalls == {k \in 1..Len(trace) : trace[k].op = "get_ip"}
\* a call of renew_ip was traced between the i-th and the j-th call
RenewedBetween(i, j) ==
    \E k \in (i + 1)..(j - 1) : trace[k].op = "renew_ip"
\* a call of renew_ip whose exchange went through was traced between the
\* i-th and the j-th call
RenewedWithSuccessBetween(i, j) ==
    \E k \in (i + 1)..(j - 1) : trace[k].op = "renew_ip" /\ trace[k].arg

C14_FreshAfterRenewOrTTL ==
    \A j \in GetIpCalls :
        (\/ j > 1 /\ trace[j - 1].op = "renew_ip"
         \/ /\ trace[j].before.ip_cache # None
            /\ trace[j].t - trace[j].before.ip_cache_time >= CacheTTL) =>
            trace[j].lookups >= 1

\* C18: get_ip returns an identity or the pending sentinel after at most
\* max_retries lookups; when the cache is empty or stale and every lookup
\* fails it makes max_retries lookups, returns the sentinel and leaves the
\* cache as it was.
C18_PendingOnFailure ==
    \A k \in GetIpCalls :
        /\ trace[k].value \in IPs \cup {Pending}
        /\ trace[k].lookups <= trace[k].arg
        /\ (~CacheFresh(trace[k].before, trace[k].t) /\ trace[k].failed) =>
              /\ trace[k].value = Pending
              /\ trace[k].lookups = trace[k].arg
              /\ trace[k].after = trace[k].before

\* with a stale identity in the cache, both lookups of a get_ip call failed
C18_Witness ==
    \E k \in GetIpCalls :
        /\ trace[k].arg = 2 /\ trace[k].failed /\ trace[k].lookups = 2
        /\ trace[k].before.ip_cache \in IPs
        /\ trace[k].t - trace[k].before.ip_cache_time >= CacheTTL
        /\ trace[k].value = Pending
        /\ trace[k].after.ip_cache = trace[k].before.ip_cache

(***************************************************************************)
(* Properties of the sockets                                               *)
(***************************************************************************)
\* C15: when relay_data returns with both of its threads finished, the
\* client socket and the backend socket are closed, however the threads
\* ended and whatever shutdown did.
C15_BothClosed ==
    (wire.returned /\ wire.at_return.finished) =>
        (wire.at_return.client = "closed" /\ wire.at_return.sock = "closed")

\* C16: connect_to_tor never raises, and when it returns None the socket it
\* opened, if any, is closed.
C16_DialNeverRaises ==
    /\ sess.dial # "raised"
    /\ (sess.dial = "failed" /\ wire.step = "failed") => wire.sock = "closed"

\* one of the two threads of the relay has left its loop
PumpStopped == wire.up \in {"shutdown", "done"} \/ wire.down \in {"shutdown", "done"}
\* both threads of the relay have ended
PumpsFinished == wire.up = "done" /\ wire.down = "done"

\* C21: once one thread of a relay has left its loop, on a read of no byte
\* or on an error, the other leaves its loop too and both threads end,
\* with no further byte from either peer.
C21_ShutdownPropagates == PumpStopped ~> PumpsFinished

\* a thread left its loop on the peer's end of data and the other was woken
\* after it
C21_Witness ==
    /\ PumpsFinished
    /\ \/ wire.up_end = "eof" /\ wire.down_end \in {"closed", "timeout"}
       \/ wire.down_end = "eof" /\ wire.up_end \in {"closed", "timeout"}

\* C22: nothing but the idle timeout of the client socket ends an
\* established relay: no thread leaves its loop on the timeout of the
\* backend socket, and relay_data does not return, and have handle close
\* the client socket, while a thread is still in its loop
C22_OnlyClientIdleTimeout ==
    /\ wire.down_end # "timeout"
    /\ wire.returned => (wire.up # "recv" /\ wire.down # "recv")

(***************************************************************************)
(* Properties of concurrent calls                                          *)
(***************************************************************************)
\* the threads whose call has returned
Returned == {t \in 1..MaxCallers : callers[t].pc = "done"}
\* no thread is inside a call
NoneCalling == \A t \in 1..MaxCallers : callers[t].pc \in {"idle", "done"}

\* C19: when k rotations of a pool of N >= 2 instances, started with the
\* index at 0, have run, at the same time or not, the index is k mod N.
C19_NoAdvanceLost ==
    (Len(instances) >= 2 /\ NoneCalling) =>
        current_index = Cardinality(Returned) % Len(instances)
\* C20: every lookup get_ip makes goes through the instance's own SOCKS
\* port, whatever get_country calls run on other threads at the same time,
\* and no address found on a direct path is ever in the identity cache
C20_LookupsThroughSocks ==
    /\ \A t \in 1..MaxCallers : callers[t].route \in {None, "socks"}
    /\ \A k \in 1..Len(inst) : inst[k].ip_cache # DirectIP

\* C23: in a pool of two or more every rotation starts one background
\* thread, and the instance that thread renews is the one that was active
\* just before the call and not the one the call returned, also when
\* rotations overlap
C23_RenewsPreviousActive ==
    Len(instances) >= 2 =>
        /\ NoneCalling => Len(warm) = Cardinality(Returned)
        /\ \A t \in Returned :
              /\ callers[t].renews = instances[callers[t].idx + 1]
              /\ callers[t].renews # callers[t].got

(***************************************************************************)
(* Properties of one instance                                              *)
(***************************************************************************)
\* the lifecycle state of the instance, read off what the code keeps:
\* Starting while start() runs, Ready while the handle is held, Failed
\* once start() has returned False and until stop() is called, Stopped
\* otherwise
Life(i, r) ==
    IF r.pc # "idle" THEN "Starting"
    ELSE IF i.process THEN "Ready"
    ELSE IF r.returned = "False" THEN "Failed"
    ELSE "Stopped"

LifeMoves ==
    {<<"Stopped", "Starting">>, <<"Starting", "Ready">>, <<"Starting", "Failed">>,
     <<"Failed", "Stopped">>, <<"Ready", "Stopped">>}

\* the call that has just returned was a renew_ip, a get_ip or a readiness
\* check that failed
FailedCall(r) ==
    r.last.op \in {"renew_ip", "get_ip", "is_circuit_ready"} /\ ~r.last.ok

\* C24: the lifecycle of an instance moves only from Stopped to Starting,
\* from Starting to Ready or to Failed, from Failed to Stopped and, by
\* stop(), from Ready to Stopped; and a renew_ip, get_ip or readiness
\* check that fails on a Ready instance changes neither its lifecycle
\* state nor its process handle
C24_Lifecycle ==
    [][/\ Life(inst'[1], run') # Life(inst[1], run) =>
            /\ <<Life(inst[1], run), Life(inst'[1], run')>> \in LifeMoves
            /\ (Life(inst[1], run) = "Ready" => run'.last.op = "stop")
       /\ (run'.n # run.n /\ FailedCall(run') /\ Life(inst[1], run) = "Ready") =>
            /\ Life(inst'[1], run') = "Ready"
            /\ inst'[1].process = inst[1].process]_vars

\* a Ready instance on which a renew_ip has just failed
C24_Witness ==
    /\ Life(inst[1], run) = "Ready"
    /\ run.last = [op |-> "renew_ip", ok |-> FALSE, held |-> TRUE]

C26_StopIdempotent ==
    [][(run'.n # run.n /\ run'.last.op = "stop") =>
          /\ ~inst'[1].process
          /\ ~inst[1].process =>
                (inst' = inst /\ run'.proc = run.proc
                              /\ run'.signals = run.signals)]_vars

\* a stop() has returned on an instance that held no handle, after the
\* process had been signalled
C26_Witness ==
    /\ run.last.op = "stop" /\ ~run.last.held
    /\ run.signals > 0

(***************************************************************************)
(* Properties of the enrolment                                             *)
(***************************************************************************)
\* the positions whose start() returned success in the call
Succeeded == {t \in 1..count : callers[t].result = "True"}
\* the list from its k-th element on
From(list, k) == [j \in 1..(Len(list) - k + 1) |-> list[j + k - 1]]
\* no instance constructed by the call and not started is in the list
NoFailedEnrolled ==
    \A j \in 1..Len(instances) :
        instances[j] > ret.first => callers[instances[j] - ret.first].result = "True"

C28_EnrolledPortsUnique ==
    \A i, j \in 1..Len(instances) :
        i # j =>
            /\ inst[instances[i]].socks_port # inst[instances[j]].socks_port
            /\ inst[instances[i]].control_port # inst[instances[j]].control_port
            /\ inst[instances[i]].socks_port # inst[instances[j]].control_port

(***************************************************************************)
(* Properties of the owner's calls during a relay                          *)
(***************************************************************************)
\* the step is a call of the owner that constructs no instance: a
\* stop_pool or a switch_to_next_instance
StopsOrRotates == calls' # calls /\ Len(inst') = Len(inst)

RequestLine(data) == Split(Split(data, CRLF)[1], SP)

\* the target of a CONNECT is not host:port with a decimal port
MalformedTarget(url) ==
    LET k == Find(url, ":", 1)
    IN k = 0 \/ ~IsDigits(SubSeq(url, k + 1, Len(url)))

\* the request has neither an absolute URI nor a Host header
NoHost(data) ==
    /\ ~Contains(RequestLine(data)[2], HttpScheme)
    /\ \A k \in 1..Len(Split(data, CRLF)) :
         ~StartsWith(Lower(Split(data, CRLF)[k]), <<"h", "o", "s", "t", ":">>)

\* the connection is one of those that are not serviced
NotServiced(data) ==
    \/ data = <<>>
    \/ detect_protocol(ByteOf(data[1])) \in {"SOCKS4", "SOCKS5", "UNKNOWN"}
    \/ Len(RequestLine(data)) < 2
    \/ /\ Len(RequestLine(data)) >= 2
       /\ IF RequestLine(data)[1] = CONNECT
          THEN MalformedTarget(RequestLine(data)[2])
          ELSE NoHost(data)

\* a step of the handler of a connection that is not serviced
HandlesNotServiced ==
    /\ sess.pc \notin {"idle", "closed"}
    /\ NotServiced(sess.data)
    /\ sess' # sess /\ served' = served /\ calls' = calls

\* C30: a connection that is not serviced (empty peek, SOCKS4, SOCKS5 or
\* UNKNOWN first byte, request line of fewer than two tokens, malformed
\* CONNECT target, no resolvable host) is dropped silently: no step of its
\* handler writes a byte to the client, dials a backend or makes a lookup
\* through one, or changes the pool's state.
C30_DroppedSilently ==
    [][HandlesNotServiced =>
          /\ sess'.out = <<>>
          /\ sess'.dials = 0 /\ sess'.lookups = 0
          /\ sess'.pc \notin {"dial", "relay"}
          /\ mgrVars' = mgrVars]_vars

(***************************************************************************)
(* The test for the control path                                           *)
(***************************************************************************)
\* the request is a GET whose target is exactly the reserved path
ExactRotate(data) ==
    /\ data # <<>>
    /\ Len(RequestLine(data)) >= 2
    /\ RequestLine(data)[1] = GET
    /\ RequestLine(data)[2] = RotatePath

\* a step of the handler of the connection
HandlerStep ==
    /\ sess.pc \notin {"idle", "closed"}
    /\ sess' # sess /\ served' = served /\ calls' = calls

\* C31: a request is taken for the rotation control protocol if and only if
\* it is a GET whose target is exactly /rotate; the handler of any other
\* request, one for /rotateX included, leaves the active index as it is.
C31_ExactControlPath ==
    [][HandlerStep =>
          /\ sess.pc = "accepted" =>
                (sess'.pc = "rot_get" <=> ExactRotate(sess.data))
          /\ ~ExactRotate(sess.data) => current_index' = current_index]_vars

(***************************************************************************)
(* The identity cache under concurrent calls                               *)
(***************************************************************************)
\* C32: the identity cache never holds an identity observed before the most
\* recent completed renewal: a get_ip whose lookup was sent before a renewal
\* went through does not write its result to the cache after it.
C32_NoStaleIdentityCached ==
    [][\A t \in 1..MaxCallers :
          (callers[t].pc = "asked" /\ callers'[t].pc = "stored") =>
              callers[t].n = 0]_vars

\* no thread is inside a get_country call
NoCountryCall == \A t \in 1..MaxCallers : callers[t].pc \notin {"clear", "request"}

\* C33: once every get_country call has returned, calls that overlapped on
\* different threads and calls that failed included, the proxy setting of
\* the instance's session is again its own SOCKS port.
C33_SessionRestored ==
    (inst # <<>> /\ NoCountryCall) => inst[1].proxies = "socks"

(***************************************************************************)
(* The renewals the rotations start                                        *)
(***************************************************************************)
\* the step is the renew_ip() of the k-th background thread
RenewsNow(k) ==
    /\ k \in 1..Len(warm)
    /\ warm[k].pc = "renew"
    /\ warm' = [warm EXCEPT ![k].pc = "lookup"]

\* C34: in a pool of two or more no background thread executes renew_ip on
\* the instance that is active at the moment it executes, however fast the
\* rotations follow each other.
C34_NeverRenewsActive ==
    [][\A k \in 1..MaxWarm :
          (RenewsNow(k) /\ Len(instances) >= 2 /\ current_index < Len(instances)) =>
              warm[k].inst # instances[current_index + 1]]_vars

(***************************************************************************)
(* Stopping the backend                                                    *)
(***************************************************************************)
\* every process of the pool is stopped
TornDown == \A k \in 1..Len(inst) : ~inst[k].process

\* C35: once BackendWorker.stop() is called on a server driven by the
\* handle_request loop, HybridProxyServer.stop() returns, stop_pool is
\* called and every enrolled instance's process is stopped in the end.
C35_StopReachesTeardown ==
    (backend.drive = "handle_request" /\ backend.socket # "none"
        /\ backend.stop # "idle")
    ~> (backend.stop = "done" /\ TornDown)

(***************************************************************************)
(* What a tunnel carries                                                   *)
(***************************************************************************)
\* the first position from k of the blank line that ends the headers, 0
\* for none
RECURSIVE HeadersEnd(_, _)
HeadersEnd(data, k) ==
    IF k >= Len(data) THEN 0
    ELSE IF data[k] = CRLF /\ data[k + 1] = CRLF THEN k + 1
    ELSE HeadersEnd(data, k + 1)

\* what the first read holds behind the headers of the request
BehindHeaders(data) ==
    IF HeadersEnd(data, 1) = 0 THEN <<>>
    ELSE SubSeq(data, HeadersEnd(data, 1) + 1, Len(data))

\* C36: in a CONNECT tunnel the backend is sent every byte the client sent
\* behind the headers of its request, in order: what arrived in the first
\* read with the headers comes before every chunk read later.
C36_TunnelCarriesAll ==
    (sess.connect /\ sess.dial = "ok" /\ Has(sess.sent, FromClient)) =>
        SubSeq(sess.sent, 1, Len(BehindHeaders(sess.data))) = BehindHeaders(sess.data)

====
